---- MODULE Spec2Model ----
(***************************************************************************)
(* A model of the word-game bot: the session registry (GameManager) and    *)
(* the session engine (Game).                                              *)
(*                                                                         *)
(* Spec      the registry: tryNewGame calls, the binding table and the     *)
(*           life of every admitted session as the registry sees it.       *)
(* FairSpec  Spec with every awaited step of run() eventually settling.    *)
(***************************************************************************)
EXTENDS Integers, Sequences, FiniteSets, TLC

(***************************************************************************)
(* Bounds and program constants.                                           *)
(***************************************************************************)

\* The number of tryNewGame calls made in one behaviour.
MaxCalls == 2

\* Game.maxPlayers, the limit the Game constructor asserts.
MaxPlayers == 22

Guilds == {"g1", "g2"}
Users == {"u1", "u2"}
Calls == 1 .. MaxCalls

NoGuild == "none"

(***************************************************************************)
(* Tile.ts: the tile kinds, in the order of the enum.                      *)
(***************************************************************************)
Letters ==
    <<"A", "B", "C", "D", "E", "F", "G", "H", "I", "J", "K", "L", "M",
      "N", "O", "P", "Q", "R", "S", "T", "U", "V", "W", "X", "Y", "Z">>

LowerLetters ==
    <<"a", "b", "c", "d", "e", "f", "g", "h", "i", "j", "k", "l", "m",
      "n", "o", "p", "q", "r", "s", "t", "u", "v", "w", "x", "y", "z">>

TileValues == Letters \o <<"WILD", "WILD_VOWEL", "WILD_CONSONANT">>

Range(f) == {f[i] : i \in DOMAIN f}

Tile == Range(TileValues)

CapitalLetter == Range(Letters)

\* the keys of randomVowel and of randomConsonant
VowelKeys == <<"A", "E", "I", "O", "U", "Y">>

ConsonantKeys ==
    <<"B", "C", "D", "F", "G", "H", "J", "K", "L", "M", "N", "P", "Q", "R",
      "S", "T", "V", "W", "X", "Y", "Z">>

(***************************************************************************)
(* Random.ts: Xorshift32.  The 32-bit state is kept as two 16-bit halves   *)
(* <<high, low>> of its unsigned value, so that no intermediate result     *)
(* leaves the range of the checker's integers.                             *)
(***************************************************************************)
Half == 65536

RECURSIVE Pow2(_)
Pow2(k) == IF k = 0 THEN 1 ELSE 2 * Pow2(k - 1)

\* bitwise exclusive or of two numbers below 2^bits
RECURSIVE XorBits(_, _, _)
XorBits(a, b, bits) ==
    IF bits = 0 THEN 0
    ELSE (((a % 2) + (b % 2)) % 2) + 2 * XorBits(a \div 2, b \div 2, bits - 1)

Xor32(x, y) == <<XorBits(x[1], y[1], 16), XorBits(x[2], y[2], 16)>>

\* x << k on 32 bits, 0 < k < 16
ShiftLeft(x, k) ==
    <<((x[1] * Pow2(k)) % Half) + (x[2] \div Pow2(16 - k)),
      (x[2] * Pow2(k)) % Half>>

\* x >>> k on 32 bits, 16 <= k < 32
ShiftRightUnsigned(x, k) == <<0, x[1] \div Pow2(k - 16)>>

\* Mutant of RandomNew: the seed 0 is kept as the state.
RandomNew_ZeroKept(seed) ==
    IF seed >= 0 THEN <<seed \div Half, seed % Half>>
    ELSE LET v == (seed + 2147483647) + 1
         IN  <<32768 + (v \div Half), v % Half>>

\* new Random(seed): this.state = seed ^ 0 || -2147483648
RandomNew(seed) ==
    IF seed = 0 THEN <<32768, 0>>
    ELSE IF seed > 0 THEN <<seed \div Half, seed % Half>>
    ELSE LET v == (seed + 2147483647) + 1
         IN  <<32768 + (v \div Half), v % Half>>

\* Random.nextIntNonZero(): the state after the call (which is also the
\* value returned)
NextState(st) ==
    LET a == Xor32(st, ShiftLeft(st, 13))
        b == Xor32(a, ShiftRightUnsigned(a, 17))
    IN  Xor32(b, ShiftLeft(b, 5))

\* Random.nextFloat(): the numerator n + 2147483648 (n < 0) or
\* n + 2147483647 (n > 0) of the float returned, over 4294967295; n is the
\* signed value of the state st after the draw
FloatNumerator(st) ==
    IF st[1] >= 32768 THEN <<st[1] - 32768, st[2]>>
    ELSE IF st[2] > 0 THEN <<st[1] + 32768, st[2] - 1>>
    ELSE <<st[1] + 32767, Half - 1>>

\* Math.floor(nextFloat() * k) for the float of numerator num, 0 < k < 2^14:
\* num * k = a * 2^32 + b = a * (2^32 - 1) + (a + b)
FloorTimes(num, k) ==
    LET c0 == num[2] * k
        c1 == num[1] * k + (c0 \div Half)
        a  == c1 \div Half
        b1 == c1 % Half
        b0 == c0 % Half
    IN  IF b1 = Half - 1 /\ b0 + a >= Half - 1 THEN a + 1 ELSE a

Max(a, b) == IF a >= b THEN a ELSE b

Min(a, b) == IF a <= b THEN a ELSE b

\* Random.nextInt(start, end), on the state st after the draw
NextInt(st, start, end) ==
    Max(start, Min(end - 1, start + FloorTimes(FloatNumerator(st), end - start)))

\* random.nextFloat() and random.nextInt(start, end) on a generator in state
\* st: the value returned (of nextFloat, the numerator over 4294967295) and
\* the state the generator is left in
RandomNextFloat(st) ==
    [state |-> NextState(st), value |-> FloatNumerator(NextState(st))]

RandomNextInt(st, start, end) ==
    [state |-> NextState(st), value |-> NextInt(NextState(st), start, end)]

\* Random.nextInt(start, end) in double arithmetic, on the state st after
\* the draw.  For ulp = 1 the arguments are the integers start and end, small
\* enough for every integer of the computation to be a double.  For ulp = 4
\* they are 2^54 + start and 2^54 + end, and so is the result: from 2^54 to
\* 2^55 the doubles are the multiples of 4, and start + nextFloat() * (end -
\* start) and end - 1 are each rounded to the nearest of them (a tie goes to
\* the multiple whose quotient by 4 is even).
NextIntUlp(st, ulp, start, end) ==
    LET k == end - start
        num == FloatNumerator(st)
        c0 == num[2] * k
        c1 == num[1] * k + (c0 \div Half)
        whole == FloorTimes(num, k)
        isWhole == \/ c1 = 0 /\ c0 = 0
                   \/ c1 % Half = Half - 1 /\
                      (c0 % Half) + (c1 \div Half) = Half - 1
        Nearest(w, exact) ==
            LET q == w % ulp
                down == w - q
            IN  IF 2 * q < ulp THEN down
                ELSE IF 2 * q > ulp \/ ~exact THEN down + ulp
                ELSE IF (down \div ulp) % 2 = 0 THEN down
                ELSE down + ulp
        sum == IF ulp = 1 THEN start + whole ELSE Nearest(start + whole, isWhole)
        last == IF ulp = 1 THEN end - 1 ELSE Nearest(end - 1, TRUE)
    IN  Max(start, Min(last, sum))

\* randomVowel(random), randomConsonant(random), on the state after the draw
RandomVowel(st) == VowelKeys[NextInt(st, 0, Len(VowelKeys)) + 1]

RandomConsonant(st) == ConsonantKeys[NextInt(st, 0, Len(ConsonantKeys)) + 1]

\* the states of the generator after each of its first n draws from st
RECURSIVE DrawStates(_, _)
DrawStates(st, n) ==
    IF n = 0 THEN <<>>
    ELSE LET before == DrawStates(st, n - 1)
             last == IF n = 1 THEN st ELSE before[n - 1]
         IN  Append(before, NextState(last))

(***************************************************************************)
(* Objectives.ts: the catalog and the selector.                            *)
(***************************************************************************)
Objective(kind, damage, param) == [kind |-> kind, damage |-> damage, param |-> param]

objectivePool ==
    << <<Objective("length", 2, 4), Objective("length", 3, 5),
         Objective("length", 4, 6), Objective("length", 5, 7),
         Objective("length", 5, 8), Objective("length", 6, 9)>>,
       <<Objective("damage", 2, 8), Objective("damage", 3, 15),
         Objective("damage", 4, 24), Objective("damage", 5, 35),
         Objective("damage", 6, 48)>>,
       <<Objective("prefix", 2, "S"), Objective("prefix", 2, "C"),
         Objective("prefix", 2, "P"), Objective("prefix", 2, "D"),
         Objective("prefix", 3, "J"), Objective("prefix", 3, "K"),
         Objective("prefix", 3, "N"), Objective("prefix", 3, "O"),
         Objective("prefix", 3, "V")>>,
       <<Objective("suffix", 2, "S"), Objective("suffix", 3, "IVE"),
         Objective("suffix", 4, "IC"), Objective("suffix", 5, "ENCE")>>,
       <<Objective("doubleConsonant", 3, "")>> >>

\* pool.filter(obj => obj.getDamage() === damage)
RECURSIVE FilterDamage(_, _)
FilterDamage(pool, damage) ==
    IF pool = <<>> THEN <<>>
    ELSE (IF Head(pool).damage = damage THEN <<Head(pool)>> ELSE <<>>)
            \o FilterDamage(Tail(pool), damage)

\* pools.filter(pool => pool.length > 0)
RECURSIVE FilterNonEmpty(_)
FilterNonEmpty(pools) ==
    IF pools = <<>> THEN <<>>
    ELSE (IF Len(Head(pools)) > 0 THEN <<Head(pools)>> ELSE <<>>)
            \o FilterNonEmpty(Tail(pools))

objectivePoolsByDamage(damage) ==
    FilterNonEmpty([i \in 1 .. Len(objectivePool) |->
                        FilterDamage(objectivePool[i], damage)])

\* getRandomObjective(damage, random): st1 and st2 are the generator's
\* states after its first and its second draw
GetRandomObjective(damage, st1, st2) ==
    LET pools == objectivePoolsByDamage(damage)
        pool == pools[NextInt(st1, 0, Len(pools)) + 1]
    IN  pool[NextInt(st2, 0, Len(pool)) + 1]

\* DoubleConsonantObjective.meetsObjective(word, score):
\* /([A-Z])\1/.test(word), a capital letter followed by itself.
DoubleConsonantMeetsObjective(word, score) ==
    \E i \in 1 .. Len(word) - 1 :
        word[i] \in CapitalLetter /\ word[i + 1] = word[i]

\* Mutant of GetRandomObjectiveOn: one draw serves both choices.
GetRandomObjectiveOn_OneDraw(damage, st) ==
    [kind |-> "objective", state |-> NextState(st),
     value |-> GetRandomObjective(damage, NextState(st), NextState(st))]

\* getRandomObjective(damage, random) on a generator in state st: what it
\* returns and the state it leaves the generator in.  nextInt(0, 0) fails
\* its assertion start < end.
GetRandomObjectiveOn(damage, st) ==
    LET pools == objectivePoolsByDamage(damage)
        st1 == NextState(st)
        st2 == NextState(st1)
    IN  IF Len(pools) = 0 THEN [kind |-> "throw", state |-> st]
        ELSE IF Len(pools[NextInt(st1, 0, Len(pools)) + 1]) = 0
        THEN [kind |-> "throw", state |-> st1]
        ELSE [kind |-> "objective", state |-> st2,
              value |-> GetRandomObjective(damage, st1, st2)]

(***************************************************************************)
(* TileCount.ts                                                            *)
(***************************************************************************)
\* the number of occurrences of tile in the list tiles
RECURSIVE Occurrences(_, _)
Occurrences(tiles, tile) ==
    IF tiles = <<>> THEN 0
    ELSE (IF Head(tiles) = tile THEN 1 ELSE 0) + Occurrences(Tail(tiles), tile)

\* new TileCount(tiles)
TileCountNew(tiles) == [t \in Tile |-> Occurrences(tiles, t)]

\* Mutants of Decrement: the count is lowered whatever it is; and it is
\* never lowered.
Decrement_BelowZero(count, tile) == [count EXCEPT ![tile] = @ - 1]

Decrement_Never(count, tile) == count

\* Mutant of CanDecrement: decrement always answers true.
CanDecrement_Always(count, tile) == TRUE

\* TileCount.decrement(tile): the value returned, and the count afterwards
CanDecrement(count, tile) == count[tile] > 0

Decrement(count, tile) ==
    IF count[tile] > 0 THEN [count EXCEPT ![tile] = @ - 1] ELSE count

(***************************************************************************)
(* Game.ts: the word resolver and the scorer.                              *)
(***************************************************************************)
Vowels == {"A", "E", "I", "O", "U"}

Consonants == CapitalLetter \ (Vowels \cup {"Y"})

Null == "null"

\* String.toUpperCase / toLowerCase, one character
UpperChar(ch) ==
    IF \E i \in 1 .. 26 : LowerLetters[i] = ch
    THEN Letters[CHOOSE i \in 1 .. 26 : LowerLetters[i] = ch]
    ELSE ch

LowerChar(ch) ==
    IF \E i \in 1 .. 26 : Letters[i] = ch
    THEN LowerLetters[CHOOSE i \in 1 .. 26 : Letters[i] = ch]
    ELSE ch

ToUpperCase(str) == [i \in 1 .. Len(str) |-> UpperChar(str[i])]

ToLowerCase(str) == [i \in 1 .. Len(str) |-> LowerChar(str[i])]

WhiteSpace == {" ", "\t", "\n"}

\* String.trim
RECURSIVE TrimStart(_)
TrimStart(str) ==
    IF str # <<>> /\ Head(str) \in WhiteSpace THEN TrimStart(Tail(str)) ELSE str

RECURSIVE TrimEnd(_)
TrimEnd(str) ==
    IF str # <<>> /\ str[Len(str)] \in WhiteSpace
    THEN TrimEnd(SubSeq(str, 1, Len(str) - 1))
    ELSE str

Trim(str) == TrimEnd(TrimStart(str))

\* /^[A-Z]*$/.test(word)
CapAlphaOnly(word) == \A i \in 1 .. Len(word) : word[i] \in CapitalLetter

\* wordToTiles, first loop: each letter takes its own tile if one is left.
\* rs = [counts, tiles] is the state of the loop before position i.
RECURSIVE ExactPass(_, _, _)
ExactPass(word, i, rs) ==
    IF i > Len(word) THEN rs
    ELSE LET tile == word[i]
         IN  ExactPass(word, i + 1,
                 IF CanDecrement(rs.counts, tile)
                 THEN [counts |-> Decrement(rs.counts, tile),
                       tiles |-> Append(rs.tiles, tile)]
                 ELSE [counts |-> rs.counts,
                       tiles |-> Append(rs.tiles, Null)])

\* Mutant of FirstAvailable: only the first kind is tried.
FirstAvailable_FirstOnly(counts, prefer) ==
    IF prefer # <<>> /\ CanDecrement(counts, Head(prefer)) THEN Head(prefer)
    ELSE Null

\* Mutant of FirstAvailable: the kinds are tried from the last to the first.
RECURSIVE FirstAvailable_Reversed(_, _)
FirstAvailable_Reversed(counts, prefer) ==
    IF prefer = <<>> THEN Null
    ELSE IF CanDecrement(counts, prefer[Len(prefer)]) THEN prefer[Len(prefer)]
    ELSE FirstAvailable_Reversed(counts, SubSeq(prefer, 1, Len(prefer) - 1))

\* The wild tile taken for an unresolved letter when the kinds in prefer
\* are tried in turn; Null when none is left.
RECURSIVE FirstAvailable(_, _)
FirstAvailable(counts, prefer) ==
    IF prefer = <<>> THEN Null
    ELSE IF CanDecrement(counts, Head(prefer)) THEN Head(prefer)
    ELSE FirstAvailable(counts, Tail(prefer))

\* wordToTiles, second loop (index < this.tiles.length): missing tiles
\* other than Y's.  The loop runs index over the tile pool, not over the
\* word; a position past the end of the word is skipped (wordAsTiles[index]
\* is undefined there, which is !== null).  rs.failed: the loop returned null.
RECURSIVE NonYPass(_, _, _, _)
NonYPass(word, poolLen, i, rs) ==
    IF rs.failed \/ i > poolLen THEN rs
    ELSE IF i > Len(word) \/ rs.tiles[i] # Null \/ word[i] = "Y"
    THEN NonYPass(word, poolLen, i + 1, rs)
    ELSE LET prefer == IF word[i] \in Vowels THEN <<"WILD_VOWEL", "WILD">>
                       ELSE IF word[i] \in Consonants
                       THEN <<"WILD_CONSONANT", "WILD">>
                       ELSE <<>>
             wild == FirstAvailable(rs.counts, prefer)
         IN  IF prefer = <<>> THEN NonYPass(word, poolLen, i + 1, rs)
             ELSE IF wild = Null THEN [rs EXCEPT !.failed = TRUE]
             ELSE NonYPass(word, poolLen, i + 1,
                      [rs EXCEPT !.counts = Decrement(rs.counts, wild),
                                 !.tiles[i] = wild])

\* wordToTiles, third loop (index < this.tiles.length): missing Y's.
RECURSIVE YPass(_, _, _, _)
YPass(word, poolLen, i, rs) ==
    IF rs.failed \/ i > poolLen THEN rs
    ELSE IF i > Len(word) \/ rs.tiles[i] # Null \/ word[i] # "Y"
    THEN YPass(word, poolLen, i + 1, rs)
    ELSE LET wild == FirstAvailable(rs.counts,
                         <<"WILD_VOWEL", "WILD_CONSONANT", "WILD">>)
         IN  IF wild = Null THEN [rs EXCEPT !.failed = TRUE]
             ELSE YPass(word, poolLen, i + 1,
                      [rs EXCEPT !.counts = Decrement(rs.counts, wild),
                                 !.tiles[i] = wild])

\* How far wordToTiles gets with a word: it returns at the test for the
\* empty word, or at the test for A-Z, or it clones the inventory and enters
\* its loops, the only place where it calls decrement.
Reaches(word) ==
    IF Len(word) = 0 THEN "emptyTest"
    ELSE IF ~CapAlphaOnly(ToUpperCase(word)) THEN "alphaTest"
    ELSE "loops"

\* Mutant of WordToTiles: the empty word is not turned away.
WordToTiles_NoEmptyTest(word, tileCount, poolLen) ==
    LET upper == ToUpperCase(word)
    IN  IF ~CapAlphaOnly(upper) THEN [kind |-> "null", tiles |-> <<>>]
        ELSE LET exact == ExactPass(upper, 1,
                              [counts |-> tileCount, tiles |-> <<>>])
                 nonY == NonYPass(upper, poolLen, 1,
                             [counts |-> exact.counts,
                              tiles |-> exact.tiles, failed |-> FALSE])
                 last == YPass(upper, poolLen, 1, nonY)
             IN  IF last.failed THEN [kind |-> "null", tiles |-> <<>>]
                 ELSE IF \E i \in 1 .. Len(upper) : last.tiles[i] = Null
                 THEN [kind |-> "throw", tiles |-> <<>>]
                 ELSE [kind |-> "tiles", tiles |-> last.tiles]

\* Game.wordToTiles(word, tileCount), in a session whose pool this.tiles has
\* poolLen tiles.  The result is [kind |-> "tiles", tiles |-> ...], or
\* [kind |-> "null"] (the word cannot be spelt), or [kind |-> "throw"] (the
\* assertion "null tile leftover." failed).
WordToTiles(word, tileCount, poolLen) ==
    IF Len(word) = 0 THEN [kind |-> "null", tiles |-> <<>>]
    ELSE LET upper == ToUpperCase(word)
         IN  IF ~CapAlphaOnly(upper) THEN [kind |-> "null", tiles |-> <<>>]
             ELSE LET exact == ExactPass(upper, 1,
                                   [counts |-> tileCount, tiles |-> <<>>])
                      nonY == NonYPass(upper, poolLen, 1,
                                  [counts |-> exact.counts,
                                   tiles |-> exact.tiles, failed |-> FALSE])
                      last == YPass(upper, poolLen, 1, nonY)
                  IN  IF last.failed THEN [kind |-> "null", tiles |-> <<>>]
                      ELSE IF \E i \in 1 .. Len(upper) : last.tiles[i] = Null
                      THEN [kind |-> "throw", tiles |-> <<>>]
                      ELSE [kind |-> "tiles", tiles |-> last.tiles]

\* testWordTiles, first loop: each letter takes its own tile if the count of
\* it is above 0, and is pushed to extraLetters otherwise.
\* rs = [counts, extraLetters] is the state of the loop before position i.
RECURSIVE ExtraLetters(_, _, _)
ExtraLetters(word, i, rs) ==
    IF i > Len(word) THEN rs
    ELSE ExtraLetters(word, i + 1,
             IF rs.counts[word[i]] > 0
             THEN [rs EXCEPT !.counts[word[i]] = @ - 1]
             ELSE [rs EXCEPT !.extraLetters = Append(@, word[i])])

\* Game.testWordTiles(word, tileCount), the resolver of the earlier engine:
\* it counts, and tells only whether the word can be spelt.
TestWordTiles(word, tileCount) ==
    IF Len(word) = 0 THEN FALSE
    ELSE LET upper == ToUpperCase(word)
         IN  IF ~CapAlphaOnly(upper) THEN FALSE
             ELSE LET rs == ExtraLetters(upper, 1,
                                [counts |-> tileCount, extraLetters |-> <<>>])
                      extra == rs.extraLetters
                      Among(S) ==
                          Cardinality({i \in 1 .. Len(extra) : extra[i] \in S})
                      wildVowels == rs.counts["WILD_VOWEL"] - Among(Vowels)
                      wildConsonants ==
                          rs.counts["WILD_CONSONANT"] - Among(Consonants)
                      yCount == Among({"Y"})
                      wilds == rs.counts["WILD"]
                                 + (IF wildVowels < 0 THEN wildVowels ELSE 0)
                                 + (IF wildConsonants < 0 THEN wildConsonants ELSE 0)
                  IN  IF wilds < 0 THEN FALSE
                      ELSE IF yCount > wilds + Max(wildConsonants, 0)
                                             + Max(wildVowels, 0)
                      THEN FALSE
                      ELSE TRUE

\* the base value scoreWord gives a tile, and whether it counts as non-wild
TileScore(tile) ==
    IF tile \in {"E", "S", "I", "A", "R", "N", "T", "O", "L", "C", "D", "U"} THEN 1
    ELSE IF tile \in {"G", "P", "M", "H", "B", "Y", "F"} THEN 2
    ELSE IF tile \in {"V", "K", "W"} THEN 3
    ELSE IF tile \in {"Z", "X", "J", "Q"} THEN 5
    ELSE 0

IsWild(tile) == tile \in {"WILD", "WILD_CONSONANT", "WILD_VOWEL"}

RECURSIVE SumScores(_)
SumScores(tiles) ==
    IF tiles = <<>> THEN 0 ELSE TileScore(Head(tiles)) + SumScores(Tail(tiles))

RECURSIVE NonWildTiles(_)
NonWildTiles(tiles) ==
    IF tiles = <<>> THEN 0
    ELSE (IF IsWild(Head(tiles)) THEN 0 ELSE 1) + NonWildTiles(Tail(tiles))

\* Mutant of ScoreWord: the length bonus is taken off.
ScoreWord_BonusSubtracted(tiles) ==
    SumScores(tiles) - Max(0, Len(tiles) - 3) * NonWildTiles(tiles)

\* Mutant of ScoreWord: the length bonus counts the wild tiles too.
ScoreWord_BonusOnAll(tiles) ==
    SumScores(tiles) + Max(0, Len(tiles) - 3) * Len(tiles)

\* Game.scoreWord(tiles)
ScoreWord(tiles) ==
    SumScores(tiles) + Max(0, Len(tiles) - 3) * NonWildTiles(tiles)

(***************************************************************************)
(* The registry's state.                                                   *)
(*   games  GameManager.games: guild id -> (user id -> Game).  Both levels *)
(*          are Collections, so both are functions on the keys present.    *)
(*          A Game is named by the tryNewGame call that constructed it.    *)
(*   call   one record per tryNewGame call: where the call is (not yet     *)
(*          made, suspended at its await of autoReply, returned), its      *)
(*          arguments while it runs and the reply it sent.                 *)
(*   game   one record per call: the Game the call constructed, if any:    *)
(*          its guild and users, where run() is, its collector, and how    *)
(*          often cleanup() stopped the collector.                         *)
(*                                                                         *)
(* One Game is followed in detail.  Its fields:                            *)
(*   day, random, phase, tiles, tileCount, currentObjectives, players,     *)
(*   wordsPlayed, teamHealth, bossHealth                                   *)
(* the locals of its run():                                                *)
(*   pc (the await run() is suspended at), wave, tilesPerWave,             *)
(*   objectivesPerWave, and bossHurt (the local of displayHurt)            *)
(* and the channel it listens to:                                          *)
(*   messages   the number of messages sent to the channel so far          *)
(*   reacted    the last message the collector took: its author, its       *)
(*              content, the phase it was handled in and what the handler  *)
(*              did with it                                                *)
(*                                                                         *)
(* The functions that depend on nothing but their arguments (scoreWord,    *)
(* wordToTiles) and the TileCount class are also followed on their own:    *)
(*   unit       the last call made: its arguments and what it returned,    *)
(*              and for a TileCount the object as the calls left it        *)
(***************************************************************************)
VARIABLES games, call, game,
          day, random, phase, tiles, tileCount, currentObjectives, players,
          wordsPlayed, teamHealth, bossHealth,
          pc, wave, tilesPerWave, objectivesPerWave, bossHurt,
          messages, reacted, titles,
          unit

registryVars == <<games, call, game>>

fieldVars ==
    <<day, random, phase, tiles, tileCount, currentObjectives, players,
      wordsPlayed, teamHealth, bossHealth>>

runVars == <<pc, wave, tilesPerWave, objectivesPerWave, bossHurt>>

channelVars == <<messages, reacted, titles>>

sessionVars == <<fieldVars, runVars, channelVars>>

vars == <<registryVars, sessionVars, unit>>

\* A player list is seen by the registry only through its members and its
\* length (players.length, every, forEach, includes).  The play command
\* always lists the user who gave it, so a list has a member.
PlayerLists == (SUBSET Users) \ {{}}

PlayerLengths(S) == {Cardinality(S), MaxPlayers, MaxPlayers + 1}

EmptyCollection == [u \in {} |-> 0]

IdleCall ==
    [st |-> "idle", guild |-> NoGuild, players |-> {}, reply |-> "none"]

NoGame ==
    [st |-> "none", guild |-> NoGuild, users |-> {}, collector |-> "none",
     stops |-> 0]

\* A call that has returned: its arguments are gone.
ReturnedCall == [IdleCall EXCEPT !.st = "returned"]

\* A Game whose run() is over ("stopped": it resolved, "crashed": it
\* rejected); the object keeps its fields.
Destroyed(gm, how) == [gm EXCEPT !.st = how]

\* Collection.ensure(key, () => new Collection())
Ensure(gs, g) ==
    IF g \in DOMAIN gs THEN gs
    ELSE [k \in DOMAIN gs \cup {g} |-> IF k = g THEN EmptyCollection ELSE gs[k]]

\* guildGames.has(user.id)
Has(coll, u) == u \in DOMAIN coll

\* Mutants of AlreadyInGame: "some player is unbound" tested in place of
\* "every player is unbound"; and the test left out.
AlreadyInGame_AllBound(coll, playerList) == \A u \in playerList : Has(coll, u)

AlreadyInGame_Never(coll, playerList) == FALSE

\* !players.every(user => !guildGames.has(user.id))
AlreadyInGame(coll, playerList) == ~(\A u \in playerList : ~Has(coll, u))

\* Mutant of TooManyPlayers: the limit one too high.
TooManyPlayers_OffByOne(len) == len > MaxPlayers + 1

\* players.length > Game.maxPlayers
TooManyPlayers(len) == len > MaxPlayers

\* players.forEach(user => guildGames.set(user.id, game))
BindAll(coll, playerList, c) ==
    [u \in DOMAIN coll \cup playerList |-> IF u \in playerList THEN c ELSE coll[u]]

\* Mutant of UnbindAll: nothing is deleted.
UnbindAll_None(coll, playerList) == coll

\* game.getPlayers().forEach(user => guildGames.delete(user.id))
UnbindAll(coll, playerList) ==
    [u \in DOMAIN coll \ playerList |-> coll[u]]

\* Mutant of Cleanup: the collector is left as it is.
Cleanup_Never(gm) == gm

\* Mutant of Cleanup: the collector is stopped whether it has ended or not.
Cleanup_Unguarded(gm) == [gm EXCEPT !.collector = "ended", !.stops = @ + 1]

\* Game.cleanup(): stop the collector unless it has ended.  stops counts the
\* calls of collector.stop() that cleanup made.
Cleanup(gm) ==
    IF gm.collector # "ended"
    THEN [gm EXCEPT !.collector = "ended", !.stops = @ + 1]
    ELSE gm

\* Mutant of DestroyGame: the players stay bound.
DestroyGame_NoUnbind(gs, gm) == Ensure(gs, gm.guild)

\* GameManager.destroyGame(game), on the binding table.
DestroyGame(gs, gm) ==
    LET ensured == Ensure(gs, gm.guild)
    IN  [ensured EXCEPT ![gm.guild] = UnbindAll(ensured[gm.guild], gm.users)]

\* new Player(user)
PlayerNew ==
    [waveDamage |-> 0, totalDamage |-> 0,
     totalObjectivesCompleted |-> 0, totalDefended |-> 0,
     waveWords |-> EmptyCollection, allWords |-> EmptyCollection]

NoUnit == [op |-> "none"]

NoMessage ==
    [author |-> "none", content |-> <<>>, phase |-> "none", mark |-> "none"]

\* The fields new Game(..., users, ..., day) sets, and run() not yet resumed
\* from its first await.
GameNew(users, d) ==
    /\ day = d
    /\ random = RandomNew(d)
    /\ phase = "START"
    /\ tiles = <<>>
    /\ tileCount = TileCountNew(<<>>)
    /\ currentObjectives = <<>>
    /\ players = [u \in users |-> PlayerNew]
    /\ wordsPlayed = <<>>
    /\ teamHealth = 15
    /\ bossHealth = 60
    /\ pc = "reply"
    /\ wave = 0
    /\ tilesPerWave = <<>>
    /\ objectivesPerWave = <<>>
    /\ bossHurt = 0
    /\ messages = 0
    /\ reacted = NoMessage
    /\ titles = <<>>

\* The registry is followed with no Game in detail: the detailed Game is one
\* without users, which takes no step.
Init ==
    /\ games = [g \in {} |-> EmptyCollection]
    /\ call = [c \in Calls |-> IdleCall]
    /\ game = [c \in Calls |-> NoGame]
    /\ GameNew({}, 0)
    /\ unit = NoUnit

\* Mutant of Admission: the "already in a game" check is left out.
Admission_NoBoundCheck(gs, g, playerList, len, chanOk) ==
    IF ~chanOk THEN "NotTextChannel"
    ELSE IF TooManyPlayers(len) THEN "TooManyPlayers"
    ELSE "admitted"

\* The outcome of tryNewGame's checks, in the order the code makes them.
Admission(gs, g, playerList, len, chanOk) ==
    IF ~chanOk THEN "NotTextChannel"
    ELSE IF TooManyPlayers(len) THEN "TooManyPlayers"
    ELSE IF AlreadyInGame(Ensure(gs, g)[g], playerList) THEN "AlreadyInGame"
    ELSE "admitted"

\* tryNewGame(guild, players, interaction), from the call to its first await
\* (a rejected call) or to its return (an admitted call, which awaits
\* nothing: the Game is constructed, the players are bound and run() is
\* started, running to its own first await).
TryNewGame(c, g, playerList, len, chanOk) ==
    /\ call[c].st = "idle"
    /\ IF c = 1 THEN TRUE ELSE call[c - 1].st # "idle"
    /\ LET outcome == Admission(games, g, playerList, len, chanOk)
       IN  IF outcome = "admitted"
           THEN /\ games' = [Ensure(games, g) EXCEPT
                                ![g] = BindAll(Ensure(games, g)[g], playerList, c)]
                /\ game' = [game EXCEPT ![c] =
                              [st |-> "waves", guild |-> g, users |-> playerList,
                               collector |-> "active", stops |-> 0]]
                /\ call' = [call EXCEPT ![c] = ReturnedCall]
           ELSE /\ games' = IF outcome = "AlreadyInGame"
                            THEN Ensure(games, g) ELSE games
                /\ game' = game
                /\ call' = [call EXCEPT ![c] =
                              [st |-> "replying", guild |-> g,
                               players |-> playerList, reply |-> outcome]]
    /\ UNCHANGED sessionVars
    /\ UNCHANGED unit

\* The await of autoReply in a rejected call settles (resolves or rejects):
\* tryNewGame returns, or rejects, having done nothing more.
ReplySettles(c) ==
    /\ call[c].st = "replying"
    /\ call' = [call EXCEPT ![c] = ReturnedCall]
    /\ UNCHANGED <<games, game, sessionVars>>
    /\ UNCHANGED unit

\* run() leaves the wave loop: phase = END and collector.stop().
RunReachesEnd(c) ==
    /\ game[c].st = "waves"
    /\ game' = [game EXCEPT ![c] = [@ EXCEPT !.st = "end", !.collector = "ended"]]
    /\ UNCHANGED <<games, call, sessionVars>>
    /\ UNCHANGED unit

\* run() gets past its last await: stop(), which is cleanup() and then the
\* destroy callback, destroyGame(this).
RunFinishes(c) ==
    /\ game[c].st = "end"
    /\ game' = [game EXCEPT ![c] = Destroyed(Cleanup(Cleanup(@)), "stopped")]
    /\ games' = DestroyGame(games, game[c])
    /\ UNCHANGED <<call, sessionVars>>
    /\ UNCHANGED unit

\* An awaited step of run() rejects: run() rejects and the handler given to
\* game.run().catch runs destroyGame(game).
RunRejects(c) ==
    /\ game[c].st \in {"waves", "end"}
    /\ game' = [game EXCEPT ![c] = Destroyed(Cleanup(@), "crashed")]
    /\ games' = DestroyGame(games, game[c])
    /\ UNCHANGED <<call, sessionVars>>
    /\ UNCHANGED unit

\* The collector's own time limit (15 minutes) ends it.
CollectorTimesOut(c) ==
    /\ game[c].st = "waves"
    /\ game[c].collector = "active"
    /\ game' = [game EXCEPT ![c] = [@ EXCEPT !.collector = "ended"]]
    /\ UNCHANGED <<games, call, sessionVars>>
    /\ UNCHANGED unit

RunProgress(c) == RunReachesEnd(c) \/ RunFinishes(c) \/ RunRejects(c)

Next ==
    \/ \E c \in Calls, g \in Guilds, playerList \in PlayerLists, chanOk \in BOOLEAN :
          \E len \in PlayerLengths(playerList) : TryNewGame(c, g, playerList, len, chanOk)
    \/ \E c \in Calls : ReplySettles(c)
    \/ \E c \in Calls : RunReachesEnd(c)
    \/ \E c \in Calls : RunFinishes(c)
    \/ \E c \in Calls : RunRejects(c)
    \/ \E c \in Calls : CollectorTimesOut(c)

Spec == Init /\ [][Next]_vars

\* Every awaited step of run() eventually resolves or rejects.
FairSpec == Spec /\ \A c \in Calls : WF_vars(RunProgress(c))

(***************************************************************************)
(* The registry's claims.                                                  *)
(***************************************************************************)

\* user u is bound to a session in guild g, in the binding table gs
BoundIn(gs, g, u) == g \in DOMAIN gs /\ u \in DOMAIN gs[g]

\* the session constructed by call c has been admitted and not destroyed
Live(c) == game[c].st \in {"waves", "end"}

Over(c) == game[c].st \in {"stopped", "crashed"}

\* C1: a tryNewGame call with a valid channel and an allowed player count
\* is rejected (reply "AlreadyInGame", no Game constructed, binding table
\* unchanged) whenever one of its players is bound in that guild, and is
\* admitted (a Game constructed, running, every player bound to it)
\* whenever none is.
C1_AdmissionRule ==
    [][\A c \in Calls, g \in Guilds, playerList \in PlayerLists :
         \A len \in PlayerLengths(playerList) :
            (/\ call[c].st = "idle" /\ call'[c].st # "idle"
             /\ len <= MaxPlayers
             /\ TryNewGame(c, g, playerList, len, TRUE)) =>
                IF \E u \in playerList : BoundIn(games, g, u)
                THEN /\ call'[c].st = "replying"
                     /\ call'[c].reply = "AlreadyInGame"
                     /\ game'[c] = NoGame
                     /\ games' = games
                ELSE /\ call'[c].st = "returned"
                     /\ game'[c].st = "waves"
                     /\ game'[c].guild = g
                     /\ game'[c].users = playerList
                     /\ \A u \in playerList :
                           BoundIn(games', g, u) /\ games'[g][u] = c]_vars

\* C1 witness: a call stands rejected for a player who is bound to a live
\* session of the guild it was made for.
C1_Witness ==
    \E c \in Calls, d \in Calls :
        /\ call[c].st = "replying"
        /\ call[c].reply = "AlreadyInGame"
        /\ Live(d)
        /\ game[d].guild = call[c].guild
        /\ game[d].users \cap call[c].players # {}

\* C2: every admitted session is eventually over with none of its
\* participants bound to it any more, whether run() resolved or rejected,
\* given that every awaited step of run() settles.
C2_EventuallyUnbound ==
    \A c \in Calls :
        Live(c) ~> (/\ Over(c)
                    /\ \A g \in DOMAIN games : \A u \in DOMAIN games[g] :
                          games[g][u] # c)

\* C2 witness: a participant of a session whose run() rejected is bound to
\* a later, live session of the same guild.
C2_Witness ==
    \E c \in Calls, d \in Calls, u \in Users :
        /\ game[c].st = "crashed"
        /\ Live(d)
        /\ game[c].guild = game[d].guild
        /\ u \in game[c].users \cap game[d].users
        /\ games[game[d].guild][u] = d

\* C3: every binding of the table is to a live session of that guild that
\* lists the user, and every participant of a live session is bound, in
\* the session's guild, to that session (so the users bound in a guild are
\* the union of its live sessions' participants, each in one session).
C3_TableMatchesSessions ==
    /\ \A g \in DOMAIN games : \A u \in DOMAIN games[g] :
          /\ Live(games[g][u])
          /\ game[games[g][u]].guild = g
          /\ u \in game[games[g][u]].users
    /\ \A c \in Calls : Live(c) =>
          \A u \in game[c].users :
              BoundIn(games, game[c].guild, u) /\ games[game[c].guild][u] = c
    /\ \A g \in DOMAIN games :
          DOMAIN games[g] =
              UNION {game[c].users : c \in {d \in Calls : Live(d) /\ game[d].guild = g}}

\* C3 witness: a guild with a destroyed session and a live one, the table
\* holding the live one's participants.
C3_Witness ==
    \E c \in Calls, d \in Calls :
        /\ Over(c)
        /\ Live(d)
        /\ game[c].guild = game[d].guild
        /\ DOMAIN games[game[d].guild] = game[d].users

\* C4 as claimed: a participant is in at most one live session, whichever
\* guilds the sessions are in.
C4_OneSessionAnywhere ==
    \A c \in Calls, d \in Calls :
        (c # d /\ Live(c) /\ Live(d)) => game[c].users \cap game[d].users = {}

\* C4 as amended: within one guild a participant is in at most one live
\* session.
C4_OneSessionPerGuild ==
    \A c \in Calls, d \in Calls :
        (c # d /\ Live(c) /\ Live(d) /\ game[c].guild = game[d].guild) =>
            game[c].users \cap game[d].users = {}

\* C4 witness: two live sessions in one guild.
C4_Witness ==
    \E c \in Calls, d \in Calls :
        /\ c # d /\ Live(c) /\ Live(d)
        /\ game[c].guild = game[d].guild

\* C5: no step replaces a user's binding in a guild by another session: a
\* call binds its participants only when the check it made still holds, so
\* of two overlapping calls for a guild the later cannot be admitted over
\* the earlier.
C5_NoOverwrite ==
    [][\A g \in Guilds, u \in Users :
         (BoundIn(games, g, u) /\ BoundIn(games', g, u)) =>
             games'[g][u] = games[g][u]]_vars

\* C5 witness: a call is suspended at its await while a later call for the
\* same guild, with a participant in common, has been admitted.
C5_Witness ==
    \E c \in Calls, d \in Calls :
        /\ c < d
        /\ call[c].st = "replying"
        /\ Live(d)
        /\ call[c].guild = game[d].guild
        /\ call[c].players \cap game[d].users # {}

\* C6: a call that is rejected (not a guild text channel, more players than
\* the maximum, or a player already bound) leaves the binding table as it
\* was and constructs no Game, hence no collector; while it is suspended
\* it has no Game either.
C6_RejectionFrame ==
    [][\A c \in Calls, g \in Guilds, playerList \in PlayerLists, chanOk \in BOOLEAN :
         \A len \in PlayerLengths(playerList) :
            (/\ call[c].st = "idle" /\ call'[c].st # "idle"
             /\ \/ ~chanOk
                \/ len > MaxPlayers
                \/ \E u \in playerList : BoundIn(games, g, u)
             /\ TryNewGame(c, g, playerList, len, chanOk)) =>
                /\ games' = games
                /\ game' = game
                /\ game'[c] = NoGame
                /\ call'[c].st = "replying"
                /\ call'[c].reply \in {"NotTextChannel", "TooManyPlayers", "AlreadyInGame"}]_vars

\* C6 witness: a call stands rejected for too many players, no Game made
\* for it, while the table holds another session's bindings.
C6_Witness ==
    \E c \in Calls, g \in DOMAIN games :
        /\ call[c].st = "replying"
        /\ call[c].reply = "TooManyPlayers"
        /\ game[c] = NoGame
        /\ DOMAIN games[g] # {}

(***************************************************************************)
(* One Game in detail: Game.ts.                                            *)
(***************************************************************************)
MaxMessages == 2

\* The Game followed is the one the first tryNewGame call constructed, in
\* the first guild, for every user.
TheCall == 1

TheGuild == "g1"

\* The day numbers followed (GameManager gives the day of the year).
Days == {1, 2}

\* Anyone may write to the channel: the users, and someone else.
Authors == Users \cup {"u0"}

\* wordList, the dictionary: an excerpt.  The word list is read from a file
\* and may hold any line; the last entry stands for an entry that is longer
\* than the first wave's pool and begins with the eight letters of the pool
\* of day 1; "groundwood" is spelt by the pool of day 1 from its second wave
\* on.
wordList ==
    { <<"r", "u", "n">>, <<"t", "a", "n">>,
      <<"q", "u", "a", "d", "r", "o", "n", "n", "s">>,
      <<"g", "r", "o", "u", "n", "d", "w", "o", "o", "d">> }

\* What a message may say.
Contents ==
    { <<"r", "u", "n">>, <<" ", "R", "u", "N", " ">>, <<"T", "A", "N">>,
      <<"q", "u", "a", "d", "r", "o", "n", "n", "s">>, <<"r", "n", "u">>,
      <<"g", "r", "o", "u", "n", "d", "w", "o", "o", "d">> }

\* enum Phase, in the order of its declaration
Phases ==
    <<"START", "WAVE1", "INTERMISSION1", "WAVE2", "INTERMISSION2", "WAVE3",
      "INTERMISSION3", "END">>

PhaseIdx(ph) == CHOOSE i \in 1 .. Len(Phases) : Phases[i] = ph

\* Mutant of WavePhase: every wave is played in WAVE1.
WavePhase_AlwaysFirst(w) == Phases[2]

\* Phase[`WAVE${wave}`]
WavePhase(w) == Phases[2 * w]

\* Phase[`INTERMISSION${wave}`]
IntermissionPhase(w) == Phases[2 * w + 1]

Waves == 3

\* Mutant of AcceptingWords: words are taken in every phase.
AcceptingWords_Always(ph) == TRUE

\* acceptingWords in onCollectPlayerMessage
AcceptingWords(ph) == ph = "WAVE1" \/ ph = "WAVE2" \/ ph = "WAVE3"

\* msg.content.trim().toLowerCase()
Normalize(content) == ToLowerCase(Trim(content))

\* Mutant of Unoriginal: no word counts as played before.
Unoriginal_Never(word, played) == FALSE

\* this.wordsPlayed.includes(word)
Unoriginal(word, played) == \E i \in 1 .. Len(played) : played[i] = word

\* Collection.set(key, value)
CollectionSet(coll, key, value) ==
    [k \in DOMAIN coll \cup {key} |-> IF k = key THEN value ELSE coll[k]]

\* Mutant of AttributeWord: the score is not added to the total.
AttributeWord_WaveOnly(player, word, score) ==
    [player EXCEPT !.waveDamage = @ + score,
                   !.waveWords = CollectionSet(@, word, score),
                   !.allWords = CollectionSet(@, word, score)]

\* Mutant of AttributeWord: the word replaces the words recorded before.
AttributeWord_AllWordsReplaced(player, word, score) ==
    [player EXCEPT !.waveDamage = @ + score,
                   !.totalDamage = @ + score,
                   !.waveWords = CollectionSet(@, word, score),
                   !.allWords = CollectionSet(EmptyCollection, word, score)]

\* Mutant of AttributeWord: the word is not recorded among all the words.
AttributeWord_NotInAllWords(player, word, score) ==
    [player EXCEPT !.waveDamage = @ + score,
                   !.totalDamage = @ + score,
                   !.waveWords = CollectionSet(@, word, score)]

\* Player.attributeWord(word, score)
AttributeWord(player, word, score) ==
    [player EXCEPT !.waveDamage = @ + score,
                   !.totalDamage = @ + score,
                   !.waveWords = CollectionSet(@, word, score),
                   !.allWords = CollectionSet(@, word, score)]

\* Mutant of ResetWave: the words of the wave are cleared, the damage stays.
ResetWave_DamageKept(player) == [player EXCEPT !.waveWords = EmptyCollection]

\* Player.resetWave()
ResetWave(player) ==
    [player EXCEPT !.waveDamage = 0, !.waveWords = EmptyCollection]

\* Mutant of TilesPerWave: the tiles are drawn after the objectives.
TilesPerWave_AfterObjectives(s) ==
    << <<RandomConsonant(s[21]), RandomConsonant(s[22]), RandomConsonant(s[23]),
         RandomVowel(s[24]), RandomVowel(s[25]), RandomVowel(s[26]),
         RandomConsonant(s[27]), RandomConsonant(s[28])>>,
       <<RandomConsonant(s[29]), RandomConsonant(s[30]), RandomConsonant(s[31]),
         RandomConsonant(s[32]), RandomConsonant(s[33]),
         RandomVowel(s[34]), RandomVowel(s[35]), "WILD">>,
       <<RandomConsonant(s[36]), RandomConsonant(s[37]), RandomConsonant(s[38]),
         RandomVowel(s[39]), RandomVowel(s[40]),
         "WILD_VOWEL", "WILD_CONSONANT", "WILD">> >>

\* The tiles of the three waves, from the generator's states after each of
\* its first 20 draws.
TilesPerWave(s) ==
    << <<RandomConsonant(s[1]), RandomConsonant(s[2]), RandomConsonant(s[3]),
         RandomVowel(s[4]), RandomVowel(s[5]), RandomVowel(s[6]),
         RandomConsonant(s[7]), RandomConsonant(s[8])>>,
       <<RandomConsonant(s[9]), RandomConsonant(s[10]), RandomConsonant(s[11]),
         RandomConsonant(s[12]), RandomConsonant(s[13]),
         RandomVowel(s[14]), RandomVowel(s[15]), "WILD">>,
       <<RandomConsonant(s[16]), RandomConsonant(s[17]), RandomConsonant(s[18]),
         RandomVowel(s[19]), RandomVowel(s[20]),
         "WILD_VOWEL", "WILD_CONSONANT", "WILD">> >>

\* The objectives of the three waves, from the states after draws 21 to 40.
ObjectivesPerWave(s) ==
    << <<>>,
       <<GetRandomObjective(5, s[21], s[22]), GetRandomObjective(4, s[23], s[24]),
         GetRandomObjective(3, s[25], s[26]), GetRandomObjective(2, s[27], s[28]),
         GetRandomObjective(2, s[29], s[30])>>,
       <<GetRandomObjective(6, s[31], s[32]), GetRandomObjective(5, s[33], s[34]),
         GetRandomObjective(4, s[35], s[36]), GetRandomObjective(3, s[37], s[38]),
         GetRandomObjective(3, s[39], s[40])>> >>

PregenerationDraws == 40

\* Mutant of SumWaveDamage: the damage of one player only is counted.
SumWaveDamage_OnePlayer(ps, us) ==
    IF us = {} THEN 0 ELSE ps[CHOOSE x \in us : TRUE].waveDamage

\* let bossHurt = 0; this.players.each(player => bossHurt += player.waveDamage)

RECURSIVE SumWaveDamage(_, _)
SumWaveDamage(ps, us) ==
    IF us = {} THEN 0
    ELSE LET u == CHOOSE x \in us : TRUE
         IN  ps[u].waveDamage + SumWaveDamage(ps, us \ {u})

\* the Game followed, as the registry sees it
Session == game[TheCall]

GameInit ==
    /\ games = [g \in {TheGuild} |-> BindAll(EmptyCollection, Users, TheCall)]
    /\ call = [c \in Calls |-> IF c = TheCall THEN ReturnedCall ELSE IdleCall]
    /\ game = [c \in Calls |->
                 IF c = TheCall
                 THEN [st |-> "waves", guild |-> TheGuild, users |-> Users,
                       collector |-> "active", stops |-> 0]
                 ELSE NoGame]
    /\ \E d \in Days : GameNew(Users, d)
    /\ unit = NoUnit

\* Mutants of UpdateTilePool: the inventory is not rebuilt; and the new tiles
\* replace the pool.
UpdateTilePool_StaleCount(w) ==
    /\ tiles' = tiles \o tilesPerWave[w]
    /\ tileCount' = tileCount

UpdateTilePool_Replace(w) ==
    /\ tiles' = tilesPerWave[w]
    /\ tileCount' = TileCountNew(tilesPerWave[w])

\* this.updateTilePool([...this.tiles, ...newTiles])
UpdateTilePool(w) ==
    /\ tiles' = tiles \o tilesPerWave[w]
    /\ tileCount' = TileCountNew(tiles \o tilesPerWave[w])

\* run(), from this.currentObjectives = objectivesPerWave[wave - 1] to the
\* next await: of the incoming attacks if the wave has objectives, of the
\* "Get Ready" display (the tile pool updated) otherwise.
AnnounceWave(w) ==
    /\ currentObjectives' = objectivesPerWave[w]
    /\ IF Len(objectivesPerWave[w]) > 0
       THEN pc' = "attacks" /\ UNCHANGED <<tiles, tileCount>>
       ELSE pc' = "getReady" /\ UpdateTilePool(w)

\* run(), from the top of the loop body to the next await: of the "Final
\* Wave" title in the final wave.
LoopBody(w) ==
    IF w = Waves
    THEN /\ titles' = Append(titles, "Final Wave")
         /\ pc' = "finalTitle"
         /\ UNCHANGED <<currentObjectives, tiles, tileCount>>
    ELSE AnnounceWave(w) /\ UNCHANGED titles

\* Mutant of OutcomeTitle: the boss's health is not looked at.
OutcomeTitle_BossIgnored(team, boss) ==
    IF team <= 0 THEN "YOU DIED" ELSE "The boss got away!"

\* The title run() displays after the loop.
OutcomeTitle(team, boss) ==
    IF team <= 0 THEN "YOU DIED"
    ELSE IF boss <= 0 THEN "You defeated the boss!"
    ELSE "The boss got away!"

\* run(), from the end of the loop to the next await:
\* this.phase = Phase.END; this.collector.stop(); displayTitle(...)
EndOfRun ==
    /\ phase' = "END"
    /\ titles' = Append(titles, OutcomeTitle(teamHealth, bossHealth))
    /\ game' = [game EXCEPT ![TheCall] =
                  [@ EXCEPT !.st = "end", !.collector = "ended"]]
    /\ pc' = "ending"

\* autoReply resolves: the game data is generated.
RunPregenerates ==
    /\ pc = "reply"
    /\ LET s == DrawStates(random, PregenerationDraws)
       IN  /\ tilesPerWave' = TilesPerWave(s)
           /\ objectivesPerWave' = ObjectivesPerWave(s)
           /\ random' = s[PregenerationDraws]
    /\ pc' = "intro"
    /\ UNCHANGED <<registryVars, day, phase, tiles, tileCount, currentObjectives,
                   players, wordsPlayed, teamHealth, bossHealth, wave, bossHurt,
                   channelVars>>
    /\ UNCHANGED unit

\* The displays of the players and of the boss are over: the first wave.
RunEntersLoop ==
    /\ pc = "intro"
    /\ wave' = 1
    /\ LoopBody(1)
    /\ UNCHANGED <<registryVars, day, random, phase, players, wordsPlayed,
                   teamHealth, bossHealth, tilesPerWave, objectivesPerWave,
                   bossHurt, messages, reacted>>
    /\ UNCHANGED unit

\* The "Final Wave" title is over.
RunAfterFinalTitle ==
    /\ pc = "finalTitle"
    /\ AnnounceWave(wave)
    /\ UNCHANGED <<registryVars, day, random, phase, players, wordsPlayed,
                   teamHealth, bossHealth, wave, tilesPerWave,
                   objectivesPerWave, bossHurt, channelVars>>
    /\ UNCHANGED unit

\* The display of the incoming attacks is over: the tile pool is updated.
RunAfterAttacks ==
    /\ pc = "attacks"
    /\ UpdateTilePool(wave)
    /\ pc' = "getReady"
    /\ UNCHANGED <<registryVars, day, random, phase, currentObjectives, players,
                   wordsPlayed, teamHealth, bossHealth, wave, tilesPerWave,
                   objectivesPerWave, bossHurt, channelVars>>
    /\ UNCHANGED unit

\* "Get Ready" is over: the wave opens.
RunOpensWave ==
    /\ pc = "getReady"
    /\ phase' = WavePhase(wave)
    /\ pc' = "timer"
    /\ UNCHANGED <<registryVars, day, random, tiles, tileCount,
                   currentObjectives, players, wordsPlayed, teamHealth,
                   bossHealth, wave, tilesPerWave, objectivesPerWave, bossHurt,
                   channelVars>>
    /\ UNCHANGED unit

\* displayWaveTimer is over: the wave closes.
RunClosesWave ==
    /\ pc = "timer"
    /\ phase' = IntermissionPhase(wave)
    /\ pc' = "crafted"
    /\ UNCHANGED <<registryVars, day, random, tiles, tileCount,
                   currentObjectives, players, wordsPlayed, teamHealth,
                   bossHealth, wave, tilesPerWave, objectivesPerWave, bossHurt,
                   channelVars>>
    /\ UNCHANGED unit

\* "Words Crafted" is over: displayHurt adds up the wave's damage and shows
\* the healths as they are.
RunStartsHurt ==
    /\ pc = "crafted"
    /\ bossHurt' = SumWaveDamage(players, DOMAIN players)
    /\ pc' = "hurt"
    /\ UNCHANGED <<registryVars, fieldVars, wave, tilesPerWave,
                   objectivesPerWave, channelVars>>
    /\ UNCHANGED unit

\* Mutant of TeamHurt: the team is hurt as much as the boss.
TeamHurt_AsBoss == bossHurt

\* let teamHurt = 0, the local of displayHurt, which is not assigned again
TeamHurt == 0

\* displayHurt, after its two awaits: the healths are lowered.
RunAppliesHurt ==
    /\ pc = "hurt"
    /\ bossHealth' = bossHealth - bossHurt
    /\ teamHealth' = teamHealth - TeamHurt
    /\ pc' = "hurtShown"
    /\ UNCHANGED <<registryVars, day, random, phase, tiles, tileCount,
                   currentObjectives, players, wordsPlayed, wave, tilesPerWave,
                   objectivesPerWave, bossHurt, channelVars>>
    /\ UNCHANGED unit

\* Mutant of LeavesLoop: the loop is left when the boss is beaten, too.
LeavesLoop_BossBeaten(team, boss) == team <= 0 \/ boss <= 0

\* if (this.teamHealth <= 0) { break; }
LeavesLoop(team, boss) == team <= 0

\* displayHurt is over: the loop is left if the team is dead.
RunAfterHurt ==
    /\ pc = "hurtShown"
    /\ IF LeavesLoop(teamHealth, bossHealth)
       THEN EndOfRun /\ UNCHANGED <<games, call>>
       ELSE pc' = "leaderboard" /\ UNCHANGED <<registryVars, phase, titles>>
    /\ UNCHANGED <<day, random, tiles, tileCount, currentObjectives, players,
                   wordsPlayed, teamHealth, bossHealth, wave, tilesPerWave,
                   objectivesPerWave, bossHurt, messages, reacted>>
    /\ UNCHANGED unit

\* The leaderboard is over: the players' wave data is reset, and the next
\* wave begins or the loop is left.
RunNextWave ==
    /\ pc = "leaderboard"
    /\ players' = [u \in DOMAIN players |-> ResetWave(players[u])]
    /\ wave' = wave + 1
    /\ IF wave + 1 <= Waves
       THEN LoopBody(wave + 1) /\ UNCHANGED <<registryVars, phase>>
       ELSE /\ EndOfRun
            /\ UNCHANGED <<games, call, currentObjectives, tiles, tileCount>>
    /\ UNCHANGED <<day, random, wordsPlayed, teamHealth, bossHealth,
                   tilesPerWave, objectivesPerWave, bossHurt, messages, reacted>>
    /\ UNCHANGED unit

\* The outcome, the recap and "All done" are over: stop(), which is
\* cleanup() and then the destroy callback, destroyGame(this).
RunStops ==
    /\ pc = "ending"
    /\ pc' = "done"
    /\ game' = [game EXCEPT ![TheCall] = Destroyed(Cleanup(Cleanup(@)), "stopped")]
    /\ games' = DestroyGame(games, Session)
    /\ UNCHANGED <<call, fieldVars, wave, tilesPerWave, objectivesPerWave,
                   bossHurt, channelVars>>
    /\ UNCHANGED unit

\* The step run() awaits rejects: run() rejects, and the handler given to
\* game.run().catch runs destroyGame(game).
GameRunRejects ==
    /\ pc \notin {"done", "crashed"}
    /\ pc' = "crashed"
    /\ game' = [game EXCEPT ![TheCall] = Destroyed(Cleanup(@), "crashed")]
    /\ games' = DestroyGame(games, Session)
    /\ UNCHANGED <<call, fieldVars, wave, tilesPerWave, objectivesPerWave,
                   bossHurt, channelVars>>
    /\ UNCHANGED unit

\* The collector's own time limit (15 minutes) ends it.
GameCollectorTimesOut ==
    /\ Session.collector = "active"
    /\ game' = [game EXCEPT ![TheCall] = [@ EXCEPT !.collector = "ended"]]
    /\ UNCHANGED <<games, call, sessionVars>>
    /\ UNCHANGED unit

\* A message the collector's filter drops:
\* filter: msg => this.users.includes(msg.author)
MessageFiltered(author) ==
    /\ Session.collector = "active"
    /\ messages < MaxMessages
    /\ author \notin Session.users
    /\ messages' = messages + 1
    /\ UNCHANGED <<registryVars, fieldVars, runVars, reacted, titles>>
    /\ UNCHANGED unit

\* The private counts of wordToTiles when it returns: new TileCount([],
\* tileCount), a clone of the inventory, less the tiles its loops took.
ResolverCounts(word, count, poolLen) ==
    IF Reaches(word) # "loops" THEN count
    ELSE LET upper == ToUpperCase(word)
             exact == ExactPass(upper, 1, [counts |-> count, tiles |-> <<>>])
             nonY == NonYPass(upper, poolLen, 1,
                         [counts |-> exact.counts,
                          tiles |-> exact.tiles, failed |-> FALSE])
         IN  YPass(upper, poolLen, 1, nonY).counts

\* Mutant of InventoryAfterResolve: wordToTiles counts down the inventory
\* itself.
InventoryAfterResolve_Shared(word, count, poolLen) ==
    ResolverCounts(word, count, poolLen)

\* this.tileCount after this.wordToTiles(word, this.tileCount): decrement is
\* called on the clone only, and the clone is dropped at the return.
InventoryAfterResolve(word, count, poolLen) == count

\* Mutant of Adjudicate: a word the tiles do not spell is let through.
Adjudicate_NoTileTest(content) ==
    LET word == Normalize(content)
        wordAsTiles == WordToTiles(word, tileCount, Len(tiles))
    IN  IF ~AcceptingWords(phase) THEN "ignored"
        ELSE IF Unoriginal(word, wordsPlayed) THEN "duplicate"
        ELSE IF word \notin wordList THEN "notWord"
        ELSE IF wordAsTiles.kind = "throw" THEN "threw"
        ELSE "accepted"

\* What onCollectPlayerMessage does with a message: nothing outside a wave
\* ("ignored"), one of the three markers of rejection, an exception out of
\* wordToTiles ("threw"), or acceptance.
Adjudicate(content) ==
    LET word == Normalize(content)
        wordAsTiles == WordToTiles(word, tileCount, Len(tiles))
    IN  IF ~AcceptingWords(phase) THEN "ignored"
        ELSE IF Unoriginal(word, wordsPlayed) THEN "duplicate"
        ELSE IF word \notin wordList THEN "notWord"
        ELSE IF wordAsTiles.kind = "throw" THEN "threw"
        ELSE IF wordAsTiles.kind = "null" THEN "noTiles"
        ELSE "accepted"

\* The collector takes a message of a user: onCollectPlayerMessage(msg), up
\* to the reactions it awaits at its end.
OnCollectPlayerMessage(author, content) ==
    /\ Session.collector = "active"
    /\ messages < MaxMessages
    /\ author \in Session.users
    /\ messages' = messages + 1
    /\ LET mark == Adjudicate(content)
           word == Normalize(content)
           wordAsTiles == WordToTiles(word, tileCount, Len(tiles))
           score == ScoreWord(wordAsTiles.tiles)
       IN  /\ reacted' = [author |-> author, content |-> content,
                          phase |-> phase, mark |-> mark]
           /\ IF mark = "accepted"
              THEN /\ wordsPlayed' = Append(wordsPlayed, word)
                   /\ players' = [players EXCEPT
                                     ![author] = AttributeWord(@, word, score)]
              ELSE UNCHANGED <<wordsPlayed, players>>
           /\ tileCount' = IF mark \in {"threw", "noTiles", "accepted"}
                           THEN InventoryAfterResolve(word, tileCount, Len(tiles))
                           ELSE tileCount
    /\ UNCHANGED <<registryVars, day, random, phase, tiles,
                   currentObjectives, teamHealth, bossHealth, runVars, titles>>
    /\ UNCHANGED unit

GameNext ==
    \/ RunPregenerates
    \/ RunEntersLoop
    \/ RunAfterFinalTitle
    \/ RunAfterAttacks
    \/ RunOpensWave
    \/ RunClosesWave
    \/ RunStartsHurt
    \/ RunAppliesHurt
    \/ RunAfterHurt
    \/ RunNextWave
    \/ RunStops
    \/ GameRunRejects
    \/ GameCollectorTimesOut
    \/ \E author \in Authors : MessageFiltered(author)
    \/ \E author \in Authors, content \in Contents :
          OnCollectPlayerMessage(author, content)

GameSpec == GameInit /\ [][GameNext]_vars

(***************************************************************************)
(* The Game's claims.                                                      *)
(***************************************************************************)
WavePhases == {"WAVE1", "WAVE2", "WAVE3"}

\* this step is onCollectPlayerMessage handling content sent by author
Handled(author, content) ==
    messages' # messages /\ OnCollectPlayerMessage(author, content)

\* C7: phase only moves forward through START, WAVE1, INTERMISSION1, WAVE2,
\* INTERMISSION2, WAVE3, INTERMISSION3, END: every step that changes it
\* takes it to a later phase of that order (so none is entered twice), and
\* every such step is a step of run(), never the handling of a message.
C7_PhaseForward ==
    [][/\ phase' # phase =>
            /\ PhaseIdx(phase') > PhaseIdx(phase)
            /\ pc' # pc
            /\ messages' = messages
       /\ messages' # messages => phase' = phase]_vars

\* C7 witness: run() came to its end through all the phases, with words
\* accepted on the way.
C7_Witness ==
    /\ pc = "done"
    /\ phase = "END"
    /\ wave = Waves + 1
    /\ Len(wordsPlayed) > 0

\* C8: a message handled while phase is START, an INTERMISSION or END leaves
\* wordsPlayed and every player's waveDamage, totalDamage, waveWords and
\* allWords as they were.
C8_OnlyInWaves ==
    [][(messages' # messages /\ phase \notin WavePhases) =>
            (wordsPlayed' = wordsPlayed /\ players' = players)]_vars

\* C8 witness: in an intermission a user sent a dictionary word that was not
\* played before and that the tiles spell, and nothing was done with it.
C8_Witness ==
    /\ reacted.mark = "ignored"
    /\ reacted.phase = "INTERMISSION1"
    /\ phase = "INTERMISSION1"
    /\ Normalize(reacted.content) \in wordList
    /\ Normalize(reacted.content) \notin Range(wordsPlayed)
    /\ WordToTiles(Normalize(reacted.content), tileCount, Len(tiles)).kind = "tiles"

\* C9: wordsPlayed never holds the same string twice, and a message handled
\* in a wave whose normalized content is in wordsPlayed is marked as a
\* duplicate and changes neither wordsPlayed nor any player's ledger,
\* whoever sent it and in whatever letter case.
C9_AcceptedOnce ==
    /\ [](\A i, j \in 1 .. Len(wordsPlayed) :
             i # j => wordsPlayed[i] # wordsPlayed[j])
    /\ [][\A author \in Users, content \in Contents :
            (/\ Handled(author, content)
             /\ phase \in WavePhases
             /\ Normalize(content) \in Range(wordsPlayed)) =>
                /\ reacted'.mark = "duplicate"
                /\ wordsPlayed' = wordsPlayed
                /\ players' = players]_vars

\* C9 witness: in wave 2 a user sent, in another letter case, the word that
\* another user had accepted in wave 1, and it was marked as a duplicate.
C9_Witness ==
    /\ reacted.mark = "duplicate"
    /\ reacted.phase = "WAVE2"
    /\ reacted.content # Normalize(reacted.content)
    /\ \E u \in Users \ {reacted.author} :
          /\ Normalize(reacted.content) \in DOMAIN players[u].allWords
          /\ Normalize(reacted.content) \notin DOMAIN players[u].waveWords

\* C10: a message handled in a wave is accepted exactly when its normalized
\* content is not in wordsPlayed, is in the dictionary and is resolved by
\* wordToTiles against the tile inventory; an accepted word is appended to
\* wordsPlayed, the sender's waveDamage and totalDamage grow by scoreWord of
\* the resolved tiles, and every other player's ledger is unchanged.
C10_Acceptance ==
    [][\A author \in Users, content \in Contents :
         (Handled(author, content) /\ phase \in WavePhases) =>
            LET word == Normalize(content)
                resolved == WordToTiles(word, tileCount, Len(tiles))
            IN  IF /\ word \notin Range(wordsPlayed)
                   /\ word \in wordList
                   /\ resolved.kind = "tiles"
                THEN /\ reacted'.mark = "accepted"
                     /\ wordsPlayed' = Append(wordsPlayed, word)
                     /\ players'[author].waveDamage =
                            players[author].waveDamage + ScoreWord(resolved.tiles)
                     /\ players'[author].totalDamage =
                            players[author].totalDamage + ScoreWord(resolved.tiles)
                     /\ \A u \in Users \ {author} : players'[u] = players[u]
                ELSE /\ reacted'.mark # "accepted"
                     /\ wordsPlayed' = wordsPlayed
                     /\ players' = players]_vars

\* C10 witness: a word was accepted from a user while another user had
\* damage to their name, in a wave later than the first.
C10_Witness ==
    /\ reacted.mark = "accepted"
    /\ reacted.phase = "WAVE2"
    /\ players[reacted.author].waveDamage > 0
    /\ \E u \in Users \ {reacted.author} : players[u].totalDamage > 0

\* the handler's three rejections, read off the state a message arrives in
RejectedAs(content) ==
    LET word == Normalize(content)
    IN  IF word \in Range(wordsPlayed) THEN "duplicate"
        ELSE IF word \notin wordList THEN "notWord"
        ELSE IF WordToTiles(word, tileCount, Len(tiles)).kind = "null"
        THEN "noTiles"
        ELSE "none"

\* C11: a message handled in a wave and rejected (as a duplicate, as not a
\* dictionary word or as not spellable from the tiles) leaves wordsPlayed,
\* every player's ledger, the tile pool, the tile inventory, teamHealth,
\* bossHealth and phase unchanged: what decides the fate of the next message
\* is as it was.
C11_RejectionFrame ==
    [][\A author \in Users, content \in Contents :
         (/\ Handled(author, content)
          /\ phase \in WavePhases
          /\ RejectedAs(content) # "none") =>
             /\ reacted'.mark = RejectedAs(content)
             /\ UNCHANGED <<wordsPlayed, players, tiles, tileCount,
                            teamHealth, bossHealth, phase>>]_vars

\* C11 witness: in a wave a user's word was rejected for want of tiles, and
\* another word the user may send now would be accepted.
C11_Witness ==
    /\ reacted.mark = "noTiles"
    /\ reacted.phase = phase
    /\ Session.collector = "active"
    /\ messages < MaxMessages
    /\ \E other \in Contents : Adjudicate(other) = "accepted"

\* C12: a dictionary word handled in a wave, not played before, that
\* wordToTiles does not resolve, whatever its length, is rejected for want
\* of tiles: wordToTiles returns null and throws nothing.
C12_NeverThrows ==
    [][\A author \in Users, content \in Contents :
         LET word == Normalize(content)
             resolved == WordToTiles(word, tileCount, Len(tiles))
         IN  (/\ Handled(author, content)
              /\ phase \in WavePhases
              /\ word \in wordList
              /\ word \notin Range(wordsPlayed)
              /\ resolved.kind # "tiles") =>
                 (resolved.kind = "null" /\ reacted'.mark = "noTiles")]_vars

\* C12, what holds instead: such a word is rejected for want of tiles
\* unless it is longer than the pool and every letter without a tile of its
\* own stands beyond the pool's length; then the handler throws.  Either way
\* nothing is changed.
C12_ThrowsOnlyBeyondPool ==
    [][\A author \in Users, content \in Contents :
         LET word == Normalize(content)
             resolved == WordToTiles(word, tileCount, Len(tiles))
         IN  (/\ Handled(author, content)
              /\ phase \in WavePhases
              /\ word \in wordList
              /\ word \notin Range(wordsPlayed)
              /\ resolved.kind # "tiles") =>
                 /\ UNCHANGED <<wordsPlayed, players, tiles, tileCount>>
                 /\ IF Len(word) > Len(tiles) /\ resolved.kind = "throw"
                    THEN reacted'.mark = "threw"
                    ELSE resolved.kind = "null" /\ reacted'.mark = "noTiles"]_vars

\* C12 witness: in wave 1 a user sent a dictionary word longer than the pool
\* and the handler threw.
C12_Witness ==
    /\ reacted.mark = "threw"
    /\ reacted.phase = "WAVE1"
    /\ Normalize(reacted.content) \in wordList
    /\ Len(Normalize(reacted.content)) > Len(tilesPerWave[1])

\* C15: the handling of a message, whether its word is accepted or
\* rejected, changes neither the tile pool nor the tile inventory.
C15_PoolUntouched ==
    [][messages' # messages => (tiles' = tiles /\ tileCount' = tileCount)]_vars

\* C15 witness: two accepted words use the same kind of tile, of which the
\* inventory counts one.
C15_Witness ==
    \E i, j \in 1 .. Len(wordsPlayed) :
        /\ i # j
        /\ \E kind \in CapitalLetter :
              /\ tileCount[kind] = 1
              /\ kind \in Range(ToUpperCase(wordsPlayed[i]))
              /\ kind \in Range(ToUpperCase(wordsPlayed[j]))

\* C16: the pool has 8 tiles throughout WAVE1, 16 throughout WAVE2 and 24
\* throughout WAVE3; every step that changes it happens outside the wave
\* phases and puts 8 new tiles behind the tiles it had.
C16_CumulativePool ==
    /\ [](\A w \in 1 .. Waves : phase = WavePhase(w) => Len(tiles) = 8 * w)
    /\ [][tiles' # tiles =>
            /\ phase \notin WavePhases
            /\ phase' \notin WavePhases
            /\ Len(tiles') = Len(tiles) + 8
            /\ SubSeq(tiles', 1, Len(tiles)) = tiles]_vars

\* C16 witness: wave 3 is open, with a pool of 24 tiles that begins with the
\* 16 tiles of wave 2, themselves beginning with the 8 tiles of wave 1.
C16_Witness ==
    /\ phase = "WAVE3"
    /\ Len(tiles) = 24
    /\ SubSeq(tiles, 1, 8) = tilesPerWave[1]
    /\ SubSeq(tiles, 9, 16) = tilesPerWave[2]
    /\ SubSeq(tiles, 17, 24) = tilesPerWave[3]

\* C17: in every state of a session the tile inventory is the tally of the
\* tile pool: it has an entry for each of the 29 kinds of tile, and the entry
\* is the number of places of the pool that hold a tile of the kind.
C17_InventoryIsTally ==
    /\ Cardinality(Tile) = 29
    /\ DOMAIN tileCount = Tile
    /\ \A kind \in Tile :
          tileCount[kind] = Cardinality({i \in 1 .. Len(tiles) : tiles[i] = kind})

\* C17 witness: in wave 2, after a word was accepted, the inventory counts
\* two or more tiles of some kind and none of another.
C17_Witness ==
    /\ phase = "WAVE2"
    /\ Len(wordsPlayed) > 0
    /\ \E kind \in Tile : tileCount[kind] >= 2
    /\ \E kind \in Tile : tileCount[kind] = 0

(***************************************************************************)
(* The functions and the TileCount class on their own.                     *)
(***************************************************************************)
MaxPoolLen == 2

MaxWordLen == 2

\* the sequences over S of length at most n
SeqsUpTo(S, n) == UNION {[1 .. k -> S] : k \in 0 .. n}

\* The tiles the pools are drawn from: a vowel, a consonant, Y and the
\* three wild kinds.
ResolverTiles == {"A", "B", "Y", "WILD", "WILD_VOWEL", "WILD_CONSONANT"}

\* The characters the words are drawn from: letters in either case, a digit
\* and a blank.
ResolverChars == {"a", "B", "y", "2", " "}

\* this.wordToTiles(word, this.tileCount), in a Game whose pool is pool, and
\* this.testWordTiles(word, this.tileCount) of the earlier engine
CallWordToTiles ==
    /\ unit.op = "wordToTiles"
    /\ unit.st = "called"
    /\ unit' = [op |-> "wordToTiles", st |-> "returned",
                word |-> unit.word, pool |-> unit.pool,
                tileCount |-> TileCountNew(unit.pool),
                reached |-> Reaches(unit.word),
                tested |-> TestWordTiles(unit.word, TileCountNew(unit.pool)),
                result |-> WordToTiles(unit.word, TileCountNew(unit.pool),
                                       Len(unit.pool))]
    /\ UNCHANGED <<registryVars, sessionVars>>

MaxScoreLen == 4

\* The tiles the scored sequences are drawn from: B, A, T, a tile of each
\* other value and a wild tile; and every tile by itself.
ScoreTiles == {"B", "A", "T", "K", "Z", "WILD"}

ScoreInputs == SeqsUpTo(ScoreTiles, MaxScoreLen) \cup {<<t>> : t \in Tile}

\* this.scoreWord(tiles)
CallScoreWord ==
    /\ unit.op = "scoreWord"
    /\ unit.st = "called"
    /\ unit' = [op |-> "scoreWord", st |-> "returned", tiles |-> unit.tiles,
                score |-> ScoreWord(unit.tiles)]
    /\ UNCHANGED <<registryVars, sessionVars>>

\* this.scoreWord(tiles) and this.scoreWord([...tiles, tile])
CallScoreWordLonger ==
    /\ unit.op = "scoreLonger"
    /\ unit.st = "called"
    /\ unit' = [op |-> "scoreLonger", st |-> "returned", tiles |-> unit.tiles,
                tile |-> unit.tile,
                score |-> ScoreWord(unit.tiles),
                longer |-> ScoreWord(Append(unit.tiles, unit.tile))]
    /\ UNCHANGED <<registryVars, sessionVars>>

MaxDraws == 3

\* The seeds tried: 0, the seed it is replaced by, the greatest seed, and
\* the seeds about 0 (a day number is a small positive seed).
Seeds == {-2147483647 - 1, 2147483647} \cup (-3 .. 8)

\* The generator states tried: those of new Random(seed) and after each of
\* its first MaxDraws draws.
RngStates ==
    {RandomNew(seed) : seed \in Seeds}
    \cup {DrawStates(RandomNew(seed), MaxDraws)[n] :
            seed \in Seeds, n \in 1 .. MaxDraws}

\* getRandomObjective(damage, random)
CallGetRandomObjective ==
    /\ unit.op = "getRandomObjective"
    /\ unit.st = "called"
    /\ unit' = [op |-> "getRandomObjective", st |-> "returned",
                damage |-> unit.damage, random |-> unit.random,
                result |-> GetRandomObjectiveOn(unit.damage, unit.random)]
    /\ UNCHANGED <<registryVars, sessionVars>>

MaxScript == 2

\* new Random(seed), twice
RandomConstruct ==
    /\ unit.op = "Random"
    /\ unit.st = "called"
    /\ unit' = [op |-> "Random", st |-> "constructed", seeds |-> unit.seeds,
                script |-> unit.script,
                state |-> [i \in 1 .. 2 |-> RandomNew(unit.seeds[i])],
                results |-> [i \in 1 .. 2 |-> <<>>]]
    /\ UNCHANGED <<registryVars, sessionVars>>

\* The generator i makes its next call of the script.
RandomCall(i) ==
    /\ unit.op = "Random"
    /\ unit.st = "constructed"
    /\ Len(unit.results[i]) < Len(unit.script)
    /\ LET c == unit.script[Len(unit.results[i]) + 1]
           r == IF c.f = "nextFloat" THEN RandomNextFloat(unit.state[i])
                ELSE RandomNextInt(unit.state[i], c.start, c.end)
       IN  unit' = [unit EXCEPT !.state[i] = r.state,
                                !.results[i] = Append(@, r.value)]
    /\ UNCHANGED <<registryVars, sessionVars>>

MaxEnd == 3

\* random.nextInt(start, end), for integers about 0 (ulp 1) and for
\* integers from 2^54 on (ulp 4)
CallNextInt ==
    /\ unit.op = "nextInt"
    /\ unit.st = "called"
    /\ unit' = [op |-> "nextInt", st |-> "returned", random |-> unit.random,
                ulp |-> unit.ulp, start |-> unit.start, end |-> unit.end,
                state |-> NextState(unit.random),
                value |-> NextIntUlp(NextState(unit.random), unit.ulp,
                                     unit.start, unit.end)]
    /\ UNCHANGED <<registryVars, sessionVars>>

MaxObjectiveWordLen == 3

\* The characters the words given to meetsObjective are drawn from: a vowel
\* and a consonant in lower case, as the session has them, and in capitals.
ObjectiveChars == {"i", "n", "O", "N"}

\* new DoubleConsonantObjective(3).meetsObjective(word, score)
CallMeetsObjective ==
    /\ unit.op = "meetsObjective"
    /\ unit.st = "called"
    /\ unit' = [op |-> "meetsObjective", st |-> "returned", word |-> unit.word,
                score |-> unit.score,
                result |-> DoubleConsonantMeetsObjective(unit.word, unit.score)]
    /\ UNCHANGED <<registryVars, sessionVars>>

MaxListLen == 3

MaxDecrements == 3

\* The tiles the counted lists are drawn from; Z is never in a list.
CountedTiles == {"A", "Q", "WILD"}

DecrementedTiles == CountedTiles \cup {"Z"}

\* new TileCount(tiles)
TileCountConstruct ==
    /\ unit.op = "TileCount"
    /\ unit.st = "called"
    /\ unit' = [op |-> "TileCount", st |-> "returned", list |-> unit.list,
                count |-> TileCountNew(unit.list),
                calls |-> 0, trues |-> 0, tile |-> "none", returned |-> FALSE]
    /\ UNCHANGED <<registryVars, sessionVars>>

\* count.decrement(tile), on the TileCount constructed
TileCountDecrement(tile) ==
    /\ unit.op = "TileCount"
    /\ unit.st = "returned"
    /\ unit.calls < MaxDecrements
    /\ unit' = [unit EXCEPT
                  !.count = Decrement(unit.count, tile),
                  !.calls = @ + 1,
                  !.trues = @ + (IF CanDecrement(unit.count, tile) THEN 1 ELSE 0),
                  !.tile = tile,
                  !.returned = CanDecrement(unit.count, tile)]
    /\ UNCHANGED <<registryVars, sessionVars>>

\* The calls followed: one call of wordToTiles, of scoreWord (or two, of a
\* sequence over A, Z and WILD and of the sequence with one more tile), of
\* getRandomObjective, of meetsObjective or of nextInt, two generators following one script of
\* nextFloat and nextInt calls, or the construction of a TileCount and the
\* decrements made on it.
UnitCalls ==
    {[op |-> "wordToTiles", st |-> "called", word |-> word, pool |-> pool] :
        word \in SeqsUpTo(ResolverChars, MaxWordLen),
        pool \in SeqsUpTo(ResolverTiles, MaxPoolLen)}
    \cup {[op |-> "scoreWord", st |-> "called", tiles |-> ts] : ts \in ScoreInputs}
    \cup {[op |-> "scoreLonger", st |-> "called", tiles |-> ts, tile |-> t] :
            ts \in SeqsUpTo({"A", "Z", "WILD"}, MaxScoreLen), t \in Tile}
    \cup {[op |-> "meetsObjective", st |-> "called", word |-> word,
           score |-> Len(word)] :
            word \in SeqsUpTo(ObjectiveChars, MaxObjectiveWordLen)}
    \cup {[op |-> "TileCount", st |-> "called", list |-> list] :
            list \in SeqsUpTo(CountedTiles, MaxListLen)}
    \cup {[op |-> "getRandomObjective", st |-> "called", damage |-> d,
           random |-> st] : d \in 2 .. 6, st \in RngStates}
    \cup {[op |-> "nextInt", st |-> "called", random |-> st, ulp |-> 1,
           start |-> r[1], end |-> r[2]] :
            st \in RngStates,
            r \in {p \in (-MaxEnd .. MaxEnd) \X (-MaxEnd .. MaxEnd) : p[1] < p[2]}}
    \cup {[op |-> "nextInt", st |-> "called", random |-> st, ulp |-> 4,
           start |-> r[1], end |-> r[2]] :
            st \in RngStates, r \in {<<0, 4>>, <<0, 8>>, <<4, 8>>}}
    \cup {[op |-> "Random", st |-> "called", seeds |-> <<s1, s2>>,
           script |-> script] :
            s1 \in {0, -2147483647 - 1, 1},
            s2 \in {0, -2147483647 - 1, 1},
            script \in SeqsUpTo({[f |-> "nextFloat"],
                                 [f |-> "nextInt", start |-> 0, end |-> 6],
                                 [f |-> "nextInt", start |-> 0, end |-> 21]},
                                MaxScript)}

UnitInit ==
    /\ games = [g \in {} |-> EmptyCollection]
    /\ call = [c \in Calls |-> IdleCall]
    /\ game = [c \in Calls |-> NoGame]
    /\ GameNew({}, 0)
    /\ unit \in UnitCalls

UnitNext ==
    \/ CallWordToTiles
    \/ CallScoreWord
    \/ CallScoreWordLonger
    \/ CallGetRandomObjective
    \/ CallMeetsObjective
    \/ CallNextInt
    \/ RandomConstruct
    \/ \E i \in 1 .. 2 : RandomCall(i)
    \/ TileCountConstruct
    \/ \E tile \in DecrementedTiles : TileCountDecrement(tile)

UnitSpec == UnitInit /\ [][UnitNext]_vars

(***************************************************************************)
(* The claims about the functions and the TileCount class.                 *)
(***************************************************************************)

C14_FailsBeforeDecrement ==
    (/\ unit.op = "wordToTiles" /\ unit.st = "returned"
     /\ \/ Len(unit.word) = 0
        \/ \E i \in 1 .. Len(unit.word) :
              UpperChar(unit.word[i]) \notin CapitalLetter) =>
        /\ unit.result.kind = "null"
        /\ unit.reached \in {"emptyTest", "alphaTest"}

\* C14 witness: wordToTiles failed on a word made of a digit and of a letter
\* that the inventory has a tile for.
C14_Witness ==
    /\ unit.op = "wordToTiles"
    /\ unit.st = "returned"
    /\ unit.result.kind = "null"
    /\ unit.reached = "alphaTest"
    /\ \E i, j \in 1 .. Len(unit.word) :
          /\ unit.word[i] = "2"
          /\ UpperChar(unit.word[j]) \in CapitalLetter
          /\ unit.tileCount[UpperChar(unit.word[j])] > 0

\* the sum of the entries of a TileCount over the kinds given
\* C18: a TileCount built from a tile list, then and after any decrement
\* calls, has an entry for each of the 29 kinds of tile, none of them
\* negative, and the entries sum to the length of the list less the number
\* of decrement calls that returned true.
C18_CountsAddUp ==
    LET RECURSIVE SumCounts(_, _)
        SumCounts(count, kinds) ==
            IF kinds = {} THEN 0
            ELSE LET kind == CHOOSE k \in kinds : TRUE
                 IN  count[kind] + SumCounts(count, kinds \ {kind})
    IN  (unit.op = "TileCount" /\ unit.st = "returned") =>
            /\ Cardinality(Tile) = 29
            /\ DOMAIN unit.count = Tile
            /\ \A kind \in Tile : unit.count[kind] >= 0
            /\ SumCounts(unit.count, Tile) = Len(unit.list) - unit.trues

\* C18 witness: a TileCount built from a list of two tiles or more, after
\* decrement calls of which one returned true and one returned false.
C18_Witness ==
    /\ unit.op = "TileCount"
    /\ unit.st = "returned"
    /\ Len(unit.list) >= 2
    /\ unit.trues >= 1
    /\ unit.calls > unit.trues

\* C19: decrement(tile) on a kind counted 0 returns false and changes no
\* entry; on a kind counted above 0 it returns true, lowers that kind's
\* entry by 1 and changes no other entry.
C19_DecrementFrame ==
    [][(unit.op = "TileCount" /\ unit.st = "returned"
            /\ unit'.calls = unit.calls + 1) =>
          IF unit.count[unit'.tile] = 0
          THEN unit'.returned = FALSE /\ unit'.count = unit.count
          ELSE /\ unit'.returned = TRUE
               /\ unit'.count[unit'.tile] = unit.count[unit'.tile] - 1
               /\ \A kind \in Tile \ {unit'.tile} :
                     unit'.count[kind] = unit.count[kind]]_vars

\* C19 witness: the last decrement returned false, on a kind that an earlier
\* decrement had brought down to 0 from what the list held.
C19_Witness ==
    /\ unit.op = "TileCount"
    /\ unit.st = "returned"
    /\ unit.calls >= 2
    /\ unit.returned = FALSE
    /\ unit.tile \in Range(unit.list)
    /\ unit.count[unit.tile] = 0

\* C20: scoreWord(tiles) is the sum of the tiles' base values plus
\* max(0, number of tiles - 3) times the number of tiles that are not wild;
\* [B, A, T] scores 4 and a sequence of wild tiles only scores 0.
C20_ScoreFormula ==
    (unit.op = "scoreWord" /\ unit.st = "returned") =>
        LET BaseValue(tile) ==
                CASE tile \in {"E", "S", "I", "A", "R", "N", "T", "O", "L", "C",
                               "D", "U"} -> 1
                  [] tile \in {"G", "P", "M", "H", "B", "Y", "F"} -> 2
                  [] tile \in {"V", "K", "W"} -> 3
                  [] tile \in {"Z", "X", "J", "Q"} -> 5
                  [] tile \in {"WILD", "WILD_VOWEL", "WILD_CONSONANT"} -> 0
            RECURSIVE SumUpTo(_, _)
            SumUpTo(seq, n) ==
                IF n = 0 THEN 0 ELSE BaseValue(seq[n]) + SumUpTo(seq, n - 1)
            ts == unit.tiles
            nonWild == Cardinality({i \in 1 .. Len(ts) : BaseValue(ts[i]) > 0})
            bonus == IF Len(ts) > 3 THEN (Len(ts) - 3) * nonWild ELSE 0
        IN  /\ unit.score = SumUpTo(ts, Len(ts)) + bonus
            /\ ts = <<"B", "A", "T">> => unit.score = 4
            /\ (\A i \in 1 .. Len(ts) : BaseValue(ts[i]) = 0) => unit.score = 0

\* C20 witness: scoreWord returned for four tiles, a wild one among them,
\* with a length bonus of three.
C20_Witness ==
    /\ unit.op = "scoreWord"
    /\ unit.st = "returned"
    /\ unit.tiles = <<"Z", "A", "WILD", "K">>
    /\ unit.score = 12

\* C21: for a tile sequence of length at least 3, scoreWord of the sequence
\* with one tile of value 1 appended is strictly greater than scoreWord of
\* the sequence.
C21_LongerScoresMore ==
    (/\ unit.op = "scoreLonger"
     /\ unit.st = "returned"
     /\ Len(unit.tiles) >= 3
     /\ unit.tile \in {"E", "S", "I", "A", "R", "N", "T", "O", "L", "C", "D", "U"})
        => unit.longer > unit.score

\* C21 witness: three tiles, a wild one among them, scored 6, and 10 with an
\* E appended.
C21_Witness ==
    /\ unit.op = "scoreLonger"
    /\ unit.st = "returned"
    /\ unit.tiles = <<"Z", "WILD", "A">>
    /\ unit.tile = "E"
    /\ unit.score = 6
    /\ unit.longer = 10

\* C22: bossHealth never increases, and changes only in the damage step of a
\* wave, where it falls by the sum of the players' waveDamage; once the phase
\* is END, bossHealth is 60 less the sum of the players' totalDamage.
C22_BossDamage ==
    /\ [](LET RECURSIVE SumOfPlayers(_, _)
              SumOfPlayers(field, us) ==
                  IF us = {} THEN 0
                  ELSE LET u == CHOOSE x \in us : TRUE
                       IN  players[u][field] + SumOfPlayers(field, us \ {u})
          IN  phase = "END" =>
                 bossHealth = 60 - SumOfPlayers("totalDamage", DOMAIN players))
    /\ [][LET RECURSIVE SumOfPlayers(_, _)
              SumOfPlayers(field, us) ==
                  IF us = {} THEN 0
                  ELSE LET u == CHOOSE x \in us : TRUE
                       IN  players[u][field] + SumOfPlayers(field, us \ {u})
          IN  /\ bossHealth' <= bossHealth
              /\ bossHealth' # bossHealth =>
                    /\ phase = IntermissionPhase(wave)
                    /\ bossHealth' =
                          bossHealth - SumOfPlayers("waveDamage", DOMAIN players)
                    /\ bossHealth' =
                          60 - SumOfPlayers("totalDamage", DOMAIN players)]_vars

\* C22 witness: the run is at its end, one player had a word of score 3
\* accepted and the other a word of score 83, and the boss is left with -26.
C22_Witness ==
    /\ phase = "END"
    /\ \E u \in Users : /\ players[u].totalDamage = 3
                        /\ \A v \in Users \ {u} : players[v].totalDamage = 83
    /\ bossHealth = -26

\* C24: no outcome is reported before the phase is END; at END exactly one
\* outcome is reported, and it is defeat if teamHealth <= 0, otherwise
\* victory if bossHealth <= 0, otherwise escape.
C24_Outcome ==
    LET Outcomes == {"YOU DIED", "You defeated the boss!", "The boss got away!"}
        ReportedOutcomes == SelectSeq(titles, LAMBDA t : t \in Outcomes)
    IN  IF phase # "END" THEN ReportedOutcomes = <<>>
        ELSE /\ Len(ReportedOutcomes) = 1
             /\ (ReportedOutcomes[1] = "YOU DIED") <=> (teamHealth <= 0)
             /\ (ReportedOutcomes[1] = "You defeated the boss!") <=>
                   (teamHealth > 0 /\ bossHealth <= 0)
             /\ (ReportedOutcomes[1] = "The boss got away!") <=>
                   (teamHealth > 0 /\ bossHealth > 0)

\* C24 witness: the run is over, the boss's health is below zero and the
\* victory was reported after the "Final Wave" title.
C24_Witness ==
    /\ pc = "done"
    /\ bossHealth < 0
    /\ titles = <<"Final Wave", "You defeated the boss!">>

\* C25: for every player, totalDamage is the sum of the scores in allWords,
\* waveDamage is the sum of the scores in waveWords and totalDamage is at
\* least waveDamage; and totalDamage never decreases.
C25_LedgerSums ==
    /\ [](LET RECURSIVE SumOfScores(_)
              SumOfScores(coll) ==
                  IF DOMAIN coll = {} THEN 0
                  ELSE LET w == CHOOSE x \in DOMAIN coll : TRUE
                       IN  coll[w] +
                           SumOfScores([x \in DOMAIN coll \ {w} |-> coll[x]])
          IN  \A u \in DOMAIN players :
                 /\ players[u].totalDamage = SumOfScores(players[u].allWords)
                 /\ players[u].waveDamage = SumOfScores(players[u].waveWords)
                 /\ players[u].totalDamage >= players[u].waveDamage)
    /\ [][\A u \in DOMAIN players :
            players'[u].totalDamage >= players[u].totalDamage]_vars

\* C25 witness: a player has two words to their name, one of an earlier wave
\* and one of the current wave.
C25_Witness ==
    \E u \in Users :
        /\ Cardinality(DOMAIN players[u].allWords) = 2
        /\ Cardinality(DOMAIN players[u].waveWords) = 1
        /\ players[u].totalDamage = 86
        /\ players[u].waveDamage = 83

\* C26: the step of the run loop that follows the leaderboard of a wave sets
\* every player's waveDamage to 0 and empties waveWords, and leaves
\* totalDamage, allWords, totalObjectivesCompleted and totalDefended as they
\* were; outside the waves no other step changes a player; and in the step
\* that opens a WAVE phase every player's waveDamage is 0 and waveWords is
\* empty.
C26_ResetWave ==
    [][/\ (pc = "leaderboard" /\ pc' \notin {"leaderboard", "crashed"}) =>
             \A u \in DOMAIN players :
                /\ players'[u].waveDamage = 0
                /\ DOMAIN players'[u].waveWords = {}
                /\ players'[u].totalDamage = players[u].totalDamage
                /\ players'[u].allWords = players[u].allWords
                /\ players'[u].totalObjectivesCompleted =
                      players[u].totalObjectivesCompleted
                /\ players'[u].totalDefended = players[u].totalDefended
       /\ (players' # players /\ phase \notin WavePhases) => pc = "leaderboard"
       /\ (phase' \in WavePhases /\ phase' # phase) =>
             \A u \in DOMAIN players :
                /\ players'[u].waveDamage = 0
                /\ DOMAIN players'[u].waveWords = {}]_vars

\* C26 witness: the second wave has opened and no message has come since;
\* the word accepted in the first wave is still in its sender's allWords and
\* totalDamage, and no longer in waveWords and waveDamage.
C26_Witness ==
    /\ phase = "WAVE2"
    /\ reacted.mark = "accepted"
    /\ reacted.phase = "WAVE1"
    /\ players[reacted.author].totalDamage = 3
    /\ DOMAIN players[reacted.author].allWords = {Normalize(reacted.content)}
    /\ players[reacted.author].waveDamage = 0
    /\ DOMAIN players[reacted.author].waveWords = {}

\* C27: getRandomObjective(d, rng), for d in 2 .. 6, returns an objective of
\* the catalog whose damage is d, and leaves the generator in the state two
\* draws after the one it was called in.
C27_ObjectiveOfTier ==
    (unit.op = "getRandomObjective" /\ unit.st = "returned") =>
        /\ unit.result.kind = "objective"
        /\ \E i \in 1 .. Len(objectivePool) :
              unit.result.value \in Range(objectivePool[i])
        /\ unit.result.value.damage = unit.damage
        /\ unit.result.state = NextState(NextState(unit.random))
        /\ unit.result.state # NextState(unit.random)

\* C27 witness: for tier 3 the only objective of the fifth sub-pool, the
\* doubled consonants, was drawn.
C27_Witness ==
    /\ unit.op = "getRandomObjective"
    /\ unit.st = "returned"
    /\ unit.damage = 3
    /\ unit.result.kind = "objective"
    /\ unit.result.value.kind = "doubleConsonant"

C29_InRange ==
    (unit.op = "nextInt" /\ unit.st = "returned") =>
        (unit.start <= unit.value /\ unit.value < unit.end)

\* C29, for the integers about 0 only: nextInt(start, end) returns r with
\* start <= r < end.
C29_InRangeAboutZero ==
    (unit.op = "nextInt" /\ unit.st = "returned" /\ unit.ulp = 1) =>
        (unit.start <= unit.value /\ unit.value < unit.end)

\* C29 witness: nextInt(2^54, 2^54 + 4) on new Random(1) has returned
\* 2^54 + 4.
C29_Witness ==
    /\ unit.op = "nextInt"
    /\ unit.st = "returned"
    /\ unit.random = RandomNew(1)
    /\ unit.ulp = 4
    /\ unit.start = 0
    /\ unit.end = 4
    /\ unit.value = 4

C31_DisplayFailureNotFatal ==
    Session.st \in {"stopped", "crashed"} => phase = "END"

\* C31, what holds instead: the rejection of the step run() awaits ends the
\* session where it is: the phase stays what it was, no further step of
\* run() is taken and the registry destroys the session; only a run in which
\* nothing rejects is over in END.
C31_AbortedWhereItFailed ==
    /\ [](Session.st = "stopped" => phase = "END")
    /\ [][GameRunRejects =>
            /\ phase' = phase
            /\ Session'.st = "crashed"
            /\ Session'.collector = "ended"
            /\ TheGuild \in DOMAIN games'
            /\ \A u \in Session.users : ~Has(games'[TheGuild], u)]_vars
    /\ [][Session.st = "crashed" => UNCHANGED <<fieldVars, runVars, titles>>]_vars

\* C31 witness: the session was destroyed in WAVE1 with words played: the
\* only steps run() awaits in a wave are displayWaveTimer's followUp, edit
\* and delete (and its timers, which do not reject).
C31_Witness ==
    /\ Session.st = "crashed"
    /\ phase = "WAVE1"
    /\ Len(wordsPlayed) > 0

\* C32: cleanup() is idempotent: called on a session whose collector has not
\* ended it stops the collector, once; called on one whose collector has
\* ended it does nothing, so a second call changes nothing after the first;
\* and on every exit path (stop() and its destroy callback after END, the
\* registry's error handler) cleanup stops the collector at most once.
C32_CleanupIdempotent ==
    \A c \in Calls :
        game[c].st # "none" =>
            /\ game[c].stops <= 1
            /\ Cleanup(game[c]).collector = "ended"
            /\ Cleanup(Cleanup(game[c])) = Cleanup(game[c])
            /\ IF game[c].collector = "ended"
               THEN Cleanup(game[c]) = game[c]
               ELSE Cleanup(game[c]).stops = game[c].stops + 1
            /\ game[c].st \in {"stopped", "crashed"} => game[c].collector = "ended"

\* C32 witness: one session ended by itself, so that stop() and the destroy
\* callback each called cleanup() and neither stopped the collector; another
\* was destroyed by the error handler, whose cleanup() stopped the collector.
C32_Witness ==
    \E c, d \in Calls :
        /\ game[c].st = "stopped" /\ game[c].stops = 0
        /\ game[d].st = "crashed" /\ game[d].stops = 1

(***************************************************************************)
(* The resolver's order and its completeness.                              *)
(***************************************************************************)

\* C33: in the list wordToTiles returns, a position has the tile of its own
\* letter exactly when the letter occurred before it less often than the
\* inventory counts the letter; a position left without (unresolved) whose
\* letter is a vowel other than Y has WILD_VOWEL, one whose letter is a
\* consonant other than Y has WILD_CONSONANT, while that wild kind lasts for
\* the unresolved positions in their order, and WILD after that; an
\* unresolved Y has what the others left: WILD_VOWEL, else WILD_CONSONANT,
\* else WILD.  No position has a wild tile of the wrong category or the tile
\* of another letter.
C33_ThreePassOrder ==
    (unit.op = "wordToTiles" /\ unit.st = "returned"
        /\ unit.result.kind = "tiles") =>
        LET w == ToUpperCase(unit.word)
            r == unit.result.tiles
            c == unit.tileCount
            Exact(i) == Cardinality({j \in 1 .. i - 1 : w[j] = w[i]}) < c[w[i]]
            UnresolvedIn(S) == {j \in 1 .. Len(w) : ~Exact(j) /\ w[j] \in S}
            Earlier(S, i) == Cardinality({j \in UnresolvedIn(S) : j < i})
            leftVowel == Max(0, c["WILD_VOWEL"] - Cardinality(UnresolvedIn(Vowels)))
            leftConsonant ==
                Max(0, c["WILD_CONSONANT"] - Cardinality(UnresolvedIn(Consonants)))
        IN  \A i \in 1 .. Len(w) :
              /\ r[i] = IF Exact(i) THEN w[i]
                        ELSE IF w[i] \in Vowels
                        THEN IF Earlier(Vowels, i) < c["WILD_VOWEL"]
                             THEN "WILD_VOWEL" ELSE "WILD"
                        ELSE IF w[i] \in Consonants
                        THEN IF Earlier(Consonants, i) < c["WILD_CONSONANT"]
                             THEN "WILD_CONSONANT" ELSE "WILD"
                        ELSE IF Earlier({"Y"}, i) < leftVowel THEN "WILD_VOWEL"
                        ELSE IF Earlier({"Y"}, i) - leftVowel < leftConsonant
                        THEN "WILD_CONSONANT"
                        ELSE "WILD"
              /\ r[i] \in {w[i], "WILD"}
                          \cup (IF w[i] \in Consonants THEN {} ELSE {"WILD_VOWEL"})
                          \cup (IF w[i] \in Vowels THEN {} ELSE {"WILD_CONSONANT"})

\* C33 witness: "ya" on the pool WILD_VOWEL, WILD: the vowel, though it
\* comes second, has WILD_VOWEL and the Y has WILD.
C33_Witness ==
    /\ unit.op = "wordToTiles"
    /\ unit.st = "returned"
    /\ unit.word = <<"y", "a">>
    /\ unit.pool = <<"WILD_VOWEL", "WILD">>
    /\ unit.result.kind = "tiles"
    /\ unit.result.tiles = <<"WILD", "WILD_VOWEL">>

\* C34: for a word of letters no longer than the pool, with the inventory
\* counted from the pool, wordToTiles succeeds exactly when the letters can
\* be given tiles of the pool, each tile to one letter at most and each
\* letter a tile that covers it (its own, WILD, WILD_VOWEL for A, E, I, O, U
\* and Y, WILD_CONSONANT for a consonant and Y); and on every word no longer
\* than the pool it succeeds exactly when testWordTiles answers true (and
\* does not throw).
C34_SucceedsIffAssignable ==
    (unit.op = "wordToTiles" /\ unit.st = "returned"
        /\ Len(unit.word) <= Len(unit.pool)) =>
        LET w == ToUpperCase(unit.word)
            Covers(tile, ch) ==
                \/ tile = ch
                \/ tile = "WILD"
                \/ tile = "WILD_VOWEL" /\ ch \in Vowels \cup {"Y"}
                \/ tile = "WILD_CONSONANT" /\ ch \in Consonants \cup {"Y"}
            Assignable ==
                \E a \in [1 .. Len(w) -> 1 .. Len(unit.pool)] :
                    /\ \A i, j \in 1 .. Len(w) : a[i] = a[j] => i = j
                    /\ \A i \in 1 .. Len(w) : Covers(unit.pool[a[i]], w[i])
        IN  /\ unit.result.kind # "throw"
            /\ (unit.result.kind = "tiles") = unit.tested
            /\ (Len(w) > 0 /\ CapAlphaOnly(w)) =>
                  ((unit.result.kind = "tiles") = Assignable)

\* C34 witness: "ya" on the pool WILD_CONSONANT, WILD_VOWEL: the letters
\* taken in their order would leave the vowel with WILD_CONSONANT; the word
\* can be spelt and both resolvers say so.
C34_Witness ==
    /\ unit.op = "wordToTiles"
    /\ unit.st = "returned"
    /\ unit.word = <<"y", "a">>
    /\ unit.pool = <<"WILD_CONSONANT", "WILD_VOWEL">>
    /\ unit.result.kind = "tiles"
    /\ unit.tested

(***************************************************************************)
(* The doubled-consonant objective.                                        *)
(***************************************************************************)

\* C35: for a word in the form the session handles words in (trimmed, in
\* lower case), the doubled-consonant objective's meetsObjective returns
\* true exactly if the word has two adjacent identical consonant letters.
C35_DoubledConsonant ==
    (unit.op = "meetsObjective" /\ unit.st = "returned"
        /\ Normalize(unit.word) = unit.word) =>
        (unit.result <=>
            \E i \in 1 .. Len(unit.word) - 1 :
                /\ UpperChar(unit.word[i]) \in Consonants
                /\ unit.word[i + 1] = unit.word[i])

\* C35, what holds instead: meetsObjective returns true exactly if the word
\* has a capital letter, vowel or consonant, followed by itself; for a word
\* in lower case it returns false.
C35_DoubledCapital ==
    (unit.op = "meetsObjective" /\ unit.st = "returned") =>
        /\ unit.result <=>
              \E i \in 1 .. Len(unit.word) - 1 :
                  /\ unit.word[i] \in {"O", "N"}
                  /\ unit.word[i + 1] = unit.word[i]
        /\ Normalize(unit.word) = unit.word => ~unit.result

\* C35 witness: meetsObjective("inn", 3) returned false.
C35_Witness ==
    /\ unit.op = "meetsObjective"
    /\ unit.st = "returned"
    /\ unit.word = <<"i", "n", "n">>
    /\ Normalize(unit.word) = unit.word
    /\ ~unit.result

\* C36: on every exit of a session, the normal one and the one by an
\* exception out of run(), the collector has ended by the time the registry
\* has unbound the session's users: in no state is a user of the session
\* unbound and the collector not ended, and every message handled is
\* handled while all the users are bound to the session.
C36_EndedBeforeUnbound ==
    /\ []((\E u \in Session.users : ~BoundIn(games, TheGuild, u)) =>
             Session.collector = "ended")
    /\ [](Session.st \in {"stopped", "crashed"} =>
             \A u \in Session.users : ~BoundIn(games, TheGuild, u))
    /\ [][\A author \in Users, content \in Contents :
            Handled(author, content) =>
                \A u \in Session.users :
                    BoundIn(games, TheGuild, u) /\ games[TheGuild][u] = TheCall]_vars

\* C36 witness: run() rejected in WAVE2 while the collector was listening
\* and could have taken another message; the users are unbound and the
\* collector has ended, stopped by cleanup().
C36_Witness ==
    /\ Session.st = "crashed"
    /\ phase = "WAVE2"
    /\ messages < MaxMessages
    /\ Session.stops = 1
    /\ Session.collector = "ended"
    /\ \A u \in Session.users : ~BoundIn(games, TheGuild, u)

(***************************************************************************)
(* The order of the handler's checks.                                      *)
(***************************************************************************)

\* C37: a message handled in a wave whose word is not accepted gets exactly
\* one marker of rejection, chosen in this order: "already used" if the word
\* was played before, whatever else is wrong with it; else "not a word" if
\* it is not in the dictionary; else "insufficient tiles"; and only a
\* dictionary word that the inventory resolves is added to wordsPlayed, so
\* every string in wordsPlayed is a dictionary word.
C37_OneMarkerInOrder ==
    /\ [](\A i \in 1 .. Len(wordsPlayed) : wordsPlayed[i] \in wordList)
    /\ [][\A author \in Users, content \in Contents :
            LET word == Normalize(content)
                resolved == WordToTiles(word, tileCount, Len(tiles))
            IN  (Handled(author, content) /\ phase \in WavePhases) =>
                  /\ reacted'.mark =
                        IF word \in Range(wordsPlayed) THEN "duplicate"
                        ELSE IF word \notin wordList THEN "notWord"
                        ELSE IF resolved.kind # "tiles" THEN "noTiles"
                        ELSE "accepted"
                  /\ wordsPlayed' # wordsPlayed =>
                        /\ wordsPlayed' = Append(wordsPlayed, word)
                        /\ word \in wordList
                        /\ resolved.kind = "tiles"]_vars

\* C37, what holds instead: the order is as claimed, and wordsPlayed holds
\* only dictionary words resolved when they were played; but a dictionary
\* word, not played before, on which wordToTiles throws gets no marker.
C37_OrderUnlessThrown ==
    /\ [](\A i \in 1 .. Len(wordsPlayed) : wordsPlayed[i] \in wordList)
    /\ [][\A author \in Users, content \in Contents :
            LET word == Normalize(content)
                resolved == WordToTiles(word, tileCount, Len(tiles))
            IN  (Handled(author, content) /\ phase \in WavePhases) =>
                  /\ reacted'.mark =
                        IF word \in Range(wordsPlayed) THEN "duplicate"
                        ELSE IF word \notin wordList THEN "notWord"
                        ELSE IF resolved.kind = "throw" THEN "threw"
                        ELSE IF resolved.kind # "tiles" THEN "noTiles"
                        ELSE "accepted"
                  /\ wordsPlayed' # wordsPlayed =>
                        /\ wordsPlayed' = Append(wordsPlayed, word)
                        /\ word \in wordList
                        /\ resolved.kind = "tiles"]_vars

\* C37 witness: after a word was accepted, a dictionary word not played
\* before was handled in a wave and got no marker: the handler threw.
C37_Witness ==
    /\ reacted.mark = "threw"
    /\ reacted.phase \in WavePhases
    /\ Len(wordsPlayed) = 1
    /\ Normalize(reacted.content) \in wordList
    /\ Normalize(reacted.content) \notin Range(wordsPlayed)

(***************************************************************************)
(* The healths over a run.                                                 *)
(***************************************************************************)

C39_BossBeatenRunGoesOn ==
    /\ []((bossHealth <= 0 /\ pc \notin {"done", "crashed"}) =>
            ENABLED (\/ RunAfterFinalTitle \/ RunAfterAttacks \/ RunOpensWave
                     \/ RunClosesWave \/ RunStartsHurt \/ RunAppliesHurt
                     \/ RunAfterHurt \/ RunNextWave \/ RunStops))
    /\ [][(bossHealth <= 0 /\ phase' # phase) =>
             PhaseIdx(phase') = PhaseIdx(phase) + 1]_vars
    /\ [][(bossHealth <= 0 /\ bossHealth' # bossHealth) =>
             /\ phase \in {"INTERMISSION1", "INTERMISSION2", "INTERMISSION3"}
             /\ bossHealth' = bossHealth - bossHurt
             /\ bossHealth' < bossHealth]_vars
    /\ [][(bossHealth <= 0 /\ phase \in WavePhases /\ messages' # messages) =>
          \A author \in Users, content \in Contents :
            LET word == Normalize(content)
                resolved == WordToTiles(word, tileCount, Len(tiles))
            IN  (/\ word \in wordList
                 /\ word \notin Range(wordsPlayed)
                 /\ resolved.kind = "tiles"
                 /\ Handled(author, content)) =>
                    /\ reacted'.mark = "accepted"
                    /\ wordsPlayed' = Append(wordsPlayed, word)
                    /\ players'[author].waveDamage =
                          players[author].waveDamage + ScoreWord(resolved.tiles)]_vars

\* C39 witness: the boss was beaten in the second wave (60 - 83); a word was
\* accepted in WAVE3 all the same, its damage was taken from the boss, and
\* the run went on to its end.
C39_Witness ==
    /\ pc = "done"
    /\ phase = "END"
    /\ reacted.phase = "WAVE3"
    /\ reacted.mark = "accepted"
    /\ Len(wordsPlayed) = 2
    /\ wordsPlayed[1] = <<"g", "r", "o", "u", "n", "d", "w", "o", "o", "d">>
    /\ bossHealth < 60 - 83

(***************************************************************************)
(* The words and their players.                                            *)
(***************************************************************************)

\* C40: in every state of a session each accepted word is credited to
\* exactly one player: no word is a key of the allWords of two players, and
\* the keys of all the players' allWords together are exactly the strings
\* in wordsPlayed.
C40_OneCreditPerWord ==
    /\ \A u, v \in DOMAIN players :
          u # v => DOMAIN players[u].allWords \cap DOMAIN players[v].allWords = {}
    /\ UNION {DOMAIN players[u].allWords : u \in DOMAIN players} = Range(wordsPlayed)
    /\ \A i, j \in 1 .. Len(wordsPlayed) : wordsPlayed[i] = wordsPlayed[j] => i = j

\* C40 witness: two players have a word each, the second of them played in
\* the second wave.
C40_Witness ==
    /\ Len(wordsPlayed) = 2
    /\ \E u, v \in DOMAIN players :
          /\ u # v
          /\ DOMAIN players[u].allWords = {wordsPlayed[1]}
          /\ DOMAIN players[v].allWords = {wordsPlayed[2]}
    /\ phase \in {"WAVE2", "INTERMISSION2"}
    /\ DOMAIN (players[reacted.author].waveWords) = {wordsPlayed[2]}

====
